---- MODULE Spec2Model ----
(***************************************************************************)
(* Scoring and fusion pipeline of the InterviewX analysis services         *)
(* (audio, text, facial): weighted aggregation of sub-scores, level        *)
(* classification, threshold gate and report assembly.                     *)
(*                                                                         *)
(* Scores are Python floats.  They are modelled as IEEE-754 binary64       *)
(* values with round-to-nearest-even arithmetic, so that statements about  *)
(* exact equality and about threshold comparisons are decided by the       *)
(* arithmetic the interpreter performs and not by real arithmetic.         *)
(***************************************************************************)
EXTENDS Integers, Sequences, FiniteSets, TLC

(***************************************************************************)
(* Natural numbers of arbitrary size: little-endian sequences of limbs in  *)
(* 0..Base-1 without leading zero limbs; <<>> is zero.  They carry the     *)
(* 53-bit significands and the double-width intermediate results.          *)
(***************************************************************************)
LimbBits == 7 + 7

Base == 2^LimbBits

RECURSIVE BNorm(_)
BNorm(a) ==
  IF a = <<>> THEN a
  ELSE IF a[Len(a)] = 0 THEN BNorm(SubSeq(a, 1, Len(a) - 1)) ELSE a

BNat(n) ==
  BNorm(<<n % Base, (n \div Base) % Base, n \div (Base * Base)>>)

RECURSIVE BAddC(_, _, _)
BAddC(a, b, c) ==
  IF a = <<>> /\ b = <<>> THEN (IF c = 0 THEN <<>> ELSE <<c>>)
  ELSE LET x == (IF a = <<>> THEN 0 ELSE Head(a))
                + (IF b = <<>> THEN 0 ELSE Head(b)) + c
       IN  <<x % Base>> \o BAddC(IF a = <<>> THEN a ELSE Tail(a),
                                 IF b = <<>> THEN b ELSE Tail(b),
                                 x \div Base)

BAdd(a, b) == BAddC(a, b, 0)

\* a - b for a >= b
RECURSIVE BSubC(_, _, _)
BSubC(a, b, c) ==
  IF a = <<>> THEN <<>>
  ELSE LET x == Head(a) - (IF b = <<>> THEN 0 ELSE Head(b)) - c
       IN  <<x % Base>> \o BSubC(Tail(a),
                                 IF b = <<>> THEN b ELSE Tail(b),
                                 IF x < 0 THEN 1 ELSE 0)

BSub(a, b) == BNorm(BSubC(a, b, 0))

\* -1, 0, 1 as a < b, a = b, a > b
RECURSIVE BCmpAt(_, _, _)
BCmpAt(a, b, i) ==
  IF i = 0 THEN 0
  ELSE IF a[i] < b[i] THEN -1
  ELSE IF a[i] > b[i] THEN 1
  ELSE BCmpAt(a, b, i - 1)

BCmp(a, b) ==
  IF Len(a) < Len(b) THEN -1
  ELSE IF Len(a) > Len(b) THEN 1
  ELSE BCmpAt(a, b, Len(a))

\* a * k + c for a limb-sized k
RECURSIVE BMulS(_, _, _)
BMulS(a, k, c) ==
  IF a = <<>> THEN (IF c = 0 THEN <<>> ELSE <<c>>)
  ELSE LET x == Head(a) * k + c
       IN  <<x % Base>> \o BMulS(Tail(a), k, x \div Base)

RECURSIVE BMulR(_, _)
BMulR(a, b) ==
  IF b = <<>> THEN <<>>
  ELSE BAdd(BMulS(a, Head(b), 0), <<0>> \o BMulR(a, Tail(b)))

BMul(a, b) == BNorm(BMulR(a, b))

RECURSIVE BZeros(_)
BZeros(n) == IF n = 0 THEN <<>> ELSE <<0>> \o BZeros(n - 1)

\* a * 2^n
BShl(a, n) ==
  IF a = <<>> THEN a
  ELSE BZeros(n \div LimbBits) \o BMulS(a, 2^(n % LimbBits), 0)

\* floor(a / 2^n)
BShr(a, n) ==
  LET d == n \div LimbBits
      k == 2^(n % LimbBits)
      r == IF d >= Len(a) THEN <<>> ELSE SubSeq(a, d + 1, Len(a))
  IN  BNorm([i \in 1..Len(r) |->
               (r[i] \div k)
               + (IF i < Len(r) THEN (r[i + 1] % k) * (Base \div k) ELSE 0)])

RECURSIVE BitsOf(_)
BitsOf(n) == IF n = 0 THEN 0 ELSE 1 + BitsOf(n \div 2)

BitLen(a) ==
  IF a = <<>> THEN 0 ELSE LimbBits * (Len(a) - 1) + BitsOf(a[Len(a)])

BOdd(a) == a # <<>> /\ a[1] % 2 = 1

\* floor(n * 2^k / d) and whether the division left a remainder, for 0 < d and n < 2d
RECURSIVE BDivBits(_, _, _, _)
BDivBits(r, d, k, q) ==
  IF k = 0 THEN [q |-> q, inexact |-> r # <<>>]
  ELSE LET r2 == BShl(r, 1)
           ge == BCmp(r2, d) >= 0
           q2 == BAdd(BShl(q, 1), IF ge THEN <<1>> ELSE <<>>)
       IN  IF Len(q2) >= 0
             THEN BDivBits(IF ge THEN BSub(r2, d) ELSE r2, d, k - 1, q2)
             ELSE [q |-> q2, inexact |-> FALSE]

(***************************************************************************)
(* binary64.  A value is sign * m * 2^e with 2^52 <= m < 2^53 (normal      *)
(* numbers; every value the services compute lies far from the subnormal   *)
(* and overflow ranges) or zero, written with m = <<>>, e = 0, neg = FALSE.*)
(* Float(op, a) is the operation op on the operands a; the operations      *)
(* reach one another through it.                                           *)
(***************************************************************************)
Precision == 53

FZero == [neg |-> FALSE, m |-> <<>>, e |-> 0]

RECURSIVE Float(_, _)

\* q * 2^e, q of Precision or Precision + 1 bits after the rounding increment
FRenorm(neg, q, e) ==
  IF BitLen(q) > Precision
    THEN [neg |-> neg, m |-> BShr(q, 1), e |-> e + 1]
    ELSE [neg |-> neg, m |-> q, e |-> e]

\* c compares the discarded bits with half a unit in the last place of q
FRoundUp(neg, q, e, c, sticky) ==
  IF c > 0 \/ (c = 0 /\ (sticky \/ BOdd(q)))
    THEN FRenorm(neg, BAdd(q, <<1>>), e)
    ELSE [neg |-> neg, m |-> q, e |-> e]

FRoundCut(neg, n, e, sticky, s, q) ==
  FRoundUp(neg, q, e + s, BCmp(BSub(n, BShl(q, s)), BShl(<<1>>, s - 1)), sticky)

FRoundLen(neg, n, e, sticky, L) ==
  IF L <= Precision
    THEN [neg |-> neg, m |-> BShl(n, Precision - L), e |-> e - (Precision - L)]
    ELSE FRoundCut(neg, n, e, sticky, L - Precision, BShr(n, L - Precision))

\* round-to-nearest-even of n * 2^e (+ a non-zero tail below the last bit of n
\* when sticky) to a double; with sticky, n must have more than Precision bits
FRoundOp(neg, n, e, sticky) ==
  IF n = <<>> THEN FZero ELSE FRoundLen(neg, n, e, sticky, BitLen(n))

\* float(n) for a small integer literal
FIntOp(n) ==
  Float("round", <<n < 0, BNat(IF n < 0 THEN -n ELSE n), 0, FALSE>>)

\* x * y
FMulOp(x, y) ==
  IF x.m = <<>> \/ y.m = <<>> THEN FZero
  ELSE Float("round", <<x.neg # y.neg, BMul(x.m, y.m), x.e + y.e, FALSE>>)

\* the quotient of the mantissas to Precision + 2 bits, for x.m >= y.m or not
FDivBits(x, y, ge) ==
  BDivBits(IF ge THEN BSub(x.m, y.m) ELSE x.m, y.m, Precision + 2,
           IF ge THEN <<1>> ELSE <<>>)

FDivRound(x, y, d) ==
  Float("round", <<x.neg # y.neg, d.q, x.e - y.e - (Precision + 2), d.inexact>>)

\* x / y for y # 0
FDivOp(x, y) ==
  IF x.m = <<>> THEN FZero
  ELSE FDivRound(x, y, FDivBits(x, y, BCmp(x.m, y.m) >= 0))

\* comparison of magnitudes: -1, 0, 1
FCmpAbs(x, y) ==
  IF x.m = <<>> THEN (IF y.m = <<>> THEN 0 ELSE -1)
  ELSE IF y.m = <<>> THEN 1
  ELSE IF x.e < y.e THEN -1
  ELSE IF x.e > y.e THEN 1
  ELSE BCmp(x.m, y.m)

\* a * 2^e and b * 2^e are |x| and |y|; c compares a with b
FAddSigned(x, y, a, b, e, c) ==
  IF x.neg = y.neg THEN Float("round", <<x.neg, BAdd(a, b), e, FALSE>>)
  ELSE IF c = 0 THEN FZero
  ELSE Float("round", <<IF c > 0 THEN x.neg ELSE y.neg,
                        IF c > 0 THEN BSub(a, b) ELSE BSub(b, a), e, FALSE>>)

FAddAligned(x, y, a, b, e) == FAddSigned(x, y, a, b, e, BCmp(a, b))

\* x + y
FAddOp(x, y) ==
  IF x.m = <<>> THEN y
  ELSE IF y.m = <<>> THEN x
  ELSE FAddAligned(x, y,
                   IF x.e < y.e THEN x.m ELSE BShl(x.m, x.e - y.e),
                   IF x.e < y.e THEN BShl(y.m, y.e - x.e) ELSE y.m,
                   IF x.e < y.e THEN x.e ELSE y.e)

FNegOp(x) == IF x.m = <<>> THEN x ELSE [x EXCEPT !.neg = ~x.neg]

FCmp(x, y, c) ==
  IF x.neg /\ ~y.neg THEN TRUE
  ELSE IF ~x.neg /\ y.neg THEN FALSE
  ELSE IF x.neg THEN c > 0
  ELSE c < 0

\* x < y
FLtOp(x, y) == FCmp(x, y, FCmpAbs(x, y))

Float(op, a) ==
  CASE op = "round" -> FRoundOp(a[1], a[2], a[3], a[4])
    [] op = "int"   -> FIntOp(a[1])
    [] op = "dec"   -> Float("div", <<Float("int", <<a[1]>>), Float("int", <<a[2]>>)>>)
    [] op = "neg"   -> FNegOp(a[1])
    [] op = "mul"   -> FMulOp(a[1], a[2])
    [] op = "div"   -> FDivOp(a[1], a[2])
    [] op = "add"   -> FAddOp(a[1], a[2])
    [] op = "sub"   -> Float("add", <<a[1], Float("neg", <<a[2]>>)>>)
    [] op = "lt"    -> FLtOp(a[1], a[2])
    [] op = "max"   -> IF Float("lt", <<a[1], a[2]>>) THEN a[2] ELSE a[1]
    [] op = "min"   -> IF Float("lt", <<a[2], a[1]>>) THEN a[2] ELSE a[1]

FInt(n) == Float("int", <<n>>)

\* the float literal written in the source as the decimal n/d
FDec(n, d) == Float("dec", <<n, d>>)

FNeg(x) == Float("neg", <<x>>)

FMul(x, y) == Float("mul", <<x, y>>)

FDiv(x, y) == Float("div", <<x, y>>)

FAdd(x, y) == Float("add", <<x, y>>)

FSub(x, y) == Float("sub", <<x, y>>)

\* x < y, x <= y, x >= y, x > y
FLt(x, y) == Float("lt", <<x, y>>)

FLe(x, y) == ~Float("lt", <<y, x>>)

FGe(x, y) == ~Float("lt", <<x, y>>)

FGt(x, y) == Float("lt", <<y, x>>)

\* Python's max(x, y) and min(x, y): the first argument unless the second is
\* strictly larger (smaller)
FMax(x, y) == Float("max", <<x, y>>)

FMin(x, y) == Float("min", <<x, y>>)

(***************************************************************************)
(* Weight tables.  A Python dict iterates in insertion order, so a table   *)
(* is the sequence of its (name, weight) items.                            *)
(***************************************************************************)
\* a faulty variant: the table also weighs the diagnostic entry rms_db
audio_quality_weights_with_rms_db ==
  << <<"volume_quality", FDec(25, 100)>>,
     <<"noise_quality", FDec(30, 100)>>,
     <<"frequency_quality", FDec(20, 100)>>,
     <<"silence_quality", FDec(15, 100)>>,
     <<"distortion_quality", FDec(10, 100)>>,
     <<"rms_db", FDec(10, 100)>> >>

audio_quality_weights ==
  << <<"volume_quality", FDec(25, 100)>>,
     <<"noise_quality", FDec(30, 100)>>,
     <<"frequency_quality", FDec(20, 100)>>,
     <<"silence_quality", FDec(15, 100)>>,
     <<"distortion_quality", FDec(10, 100)>> >>

speech_weights ==
  << <<"rate_quality", FDec(25, 100)>>,
     <<"pitch_quality", FDec(25, 100)>>,
     <<"articulation_quality", FDec(25, 100)>>,
     <<"fluency_quality", FDec(25, 100)>> >>

text_quality_weights ==
  << <<"grammar_score", FDec(25, 100)>>,
     <<"clarity_score", FDec(25, 100)>>,
     <<"relevance_score", FDec(20, 100)>>,
     <<"completeness_score", FDec(15, 100)>>,
     <<"professionalism_score", FDec(15, 100)>> >>

clarity_weights ==
  << <<"grammar_score", FDec(4, 10)>>,
     <<"readability_score", FDec(3, 10)>>,
     <<"structure_score", FDec(3, 10)>> >>

\* the neutral fallback 0.5, and the clip limits 0.0 and 1.0
Neutral == FDec(5, 10)

FOne == FInt(1)

(***************************************************************************)
(* The accumulation loop shared by the four first-order aggregators:       *)
(*     for metric, weight in weights.items():                              *)
(*         if metric in metrics:                                           *)
(*             score += weight * metrics[metric]; total_weight += weight   *)
(* from item i on, starting from the running pair acc.                     *)
(***************************************************************************)
RECURSIVE Accumulate(_, _, _, _)
Accumulate(metrics, weights, i, acc) ==
  IF i > Len(weights) THEN acc
  ELSE LET metric == weights[i][1]
           weight == weights[i][2]
           next   == IF metric \in DOMAIN metrics
                       THEN [score |-> FAdd(acc.score, FMul(weight, metrics[metric])),
                             total_weight |-> FAdd(acc.total_weight, weight)]
                       ELSE acc
       IN  Accumulate(metrics, weights, i + 1, next)

\* the names a table weighs
Names(weights) == {weights[i][1] : i \in 1..Len(weights)}

\* a faulty variant: a name the mapping lacks counts as a score of 0.0
WeightedLoop_missing_as_zero(metrics, weights) ==
  Accumulate([n \in Names(weights) |-> IF n \in DOMAIN metrics THEN metrics[n] ELSE FZero],
             weights, 1, [score |-> FZero, total_weight |-> FZero])

\* a faulty variant: the loop adds the weighted shortfall 1 - score
WeightedLoop_inverted(metrics, weights) ==
  Accumulate([n \in DOMAIN metrics |-> FSub(FOne, metrics[n])], weights, 1,
             [score |-> FZero, total_weight |-> FZero])

WeightedLoop(metrics, weights) ==
  Accumulate(metrics, weights, 1, [score |-> FZero, total_weight |-> FZero])

\* faulty variants: the operands of the division swapped; 0.0 for the
\* fallback; the division left out
Normalize_swapped(acc) ==
  IF FGt(acc.total_weight, FZero) /\ FGt(acc.score, FZero)
    THEN FDiv(acc.total_weight, acc.score) ELSE Neutral

Normalize_zero_fallback(acc) ==
  IF FGt(acc.total_weight, FZero) THEN FDiv(acc.score, acc.total_weight) ELSE FZero

Normalize_no_division(acc) ==
  IF FGt(acc.total_weight, FZero) THEN acc.score ELSE Neutral

\* "score /= total_weight if total_weight > 0 else 0.5"
Normalize(acc) ==
  IF FGt(acc.total_weight, FZero) THEN FDiv(acc.score, acc.total_weight) ELSE Neutral

\* max(0.0, min(1.0, x))
Clip(x) == FMax(FZero, FMin(FOne, x))

\* Python's None: gemini_analysis when there is no Gemini client, a mapping or
\* an entry that is missing
None == ("None" :> TRUE)

\* the accumulation loop raises TypeError: the mapping is None ("metric in
\* metrics") or a weighted entry is not a number ("weight * metrics[metric]")
Raises(metrics, weights) ==
  \/ metrics = None
  \/ \E n \in Names(weights) \cap DOMAIN metrics : metrics[n] = None

\* a faulty variant: the TypeError reaches the caller
_calculate_quality_score_uncaught(metrics) ==
  IF Raises(metrics, audio_quality_weights) THEN [raised |-> "TypeError"]
  ELSE Clip(Normalize(WeightedLoop(metrics, audio_quality_weights)))

\* a faulty variant: the plain mean of the present scores
_calculate_quality_score_unweighted(metrics) ==
  Clip(Normalize(WeightedLoop(metrics,
         [i \in 1..Len(audio_quality_weights) |-> <<audio_quality_weights[i][1], FOne>>])))

\* AudioProcessor._calculate_quality_score
_calculate_quality_score(metrics) ==
  IF Raises(metrics, audio_quality_weights) THEN Neutral
  ELSE Clip(Normalize(WeightedLoop(metrics, audio_quality_weights)))

\* AudioProcessor._calculate_speech_score
_calculate_speech_score(metrics) ==
  IF Raises(metrics, speech_weights) THEN Neutral
  ELSE Clip(Normalize(WeightedLoop(metrics, speech_weights)))

\* a faulty variant: a score the analysis lacks counts as 0.5 with its full
\* weight
text_calculate_overall_quality_with_defaults(analysis) ==
  Clip(Normalize(WeightedLoop(
         [n \in Names(text_quality_weights) |->
            IF n \in DOMAIN analysis THEN analysis[n] ELSE Neutral],
         text_quality_weights)))

\* text service calculate_overall_quality
text_calculate_overall_quality(analysis) ==
  IF Raises(analysis, text_quality_weights) THEN Neutral
  ELSE Clip(Normalize(WeightedLoop(analysis, text_quality_weights)))

\* TextProcessor._calculate_clarity_score: no clip
_calculate_clarity_score(analysis) ==
  IF Raises(analysis, clarity_weights) THEN Neutral
  ELSE Normalize(WeightedLoop(analysis, clarity_weights))

(***************************************************************************)
(* Level classifiers: three copies of the same ladder.                     *)
(***************************************************************************)
\* a faulty variant: the top band starts at 0.95
_get_quality_level_top_at_095(score) ==
  IF FGe(score, FDec(95, 100)) THEN "Excellent"
  ELSE IF FGe(score, FDec(8, 10)) THEN "Good"
  ELSE IF FGe(score, FDec(6, 10)) THEN "Fair"
  ELSE IF FGe(score, FDec(4, 10)) THEN "Poor"
  ELSE "Very Poor"

_get_quality_level(score) ==
  IF FGe(score, FDec(9, 10)) THEN "Excellent"
  ELSE IF FGe(score, FDec(8, 10)) THEN "Good"
  ELSE IF FGe(score, FDec(6, 10)) THEN "Fair"
  ELSE IF FGe(score, FDec(4, 10)) THEN "Poor"
  ELSE "Very Poor"

\* a faulty variant: the bands open at their lower end
_get_speech_level_open(score) ==
  IF FGt(score, FDec(9, 10)) THEN "Excellent"
  ELSE IF FGt(score, FDec(8, 10)) THEN "Good"
  ELSE IF FGt(score, FDec(6, 10)) THEN "Fair"
  ELSE IF FGt(score, FDec(4, 10)) THEN "Poor"
  ELSE "Very Poor"

_get_speech_level(score) ==
  IF FGe(score, FDec(9, 10)) THEN "Excellent"
  ELSE IF FGe(score, FDec(8, 10)) THEN "Good"
  ELSE IF FGe(score, FDec(6, 10)) THEN "Fair"
  ELSE IF FGe(score, FDec(4, 10)) THEN "Poor"
  ELSE "Very Poor"

get_quality_level(score) ==
  IF FGe(score, FDec(9, 10)) THEN "Excellent"
  ELSE IF FGe(score, FDec(8, 10)) THEN "Good"
  ELSE IF FGe(score, FDec(6, 10)) THEN "Fair"
  ELSE IF FGe(score, FDec(4, 10)) THEN "Poor"
  ELSE "Very Poor"

(***************************************************************************)
(* Second-order combination in the audio service.                          *)
(***************************************************************************)
\* a faulty variant: an absent key reads as 0.0
Get_absent_as_zero(d, key, default) == IF key \in DOMAIN d THEN d[key] ELSE FZero

\* dict.get(key, default)
Get(d, key, default) == IF key \in DOMAIN d THEN d[key] ELSE default

\* audio service calculate_overall_quality: fixed weights 0.3, 0.4, 0.3
audio_calculate_overall_quality(quality_analysis, speech_analysis, stt_result) ==
  LET audio_quality            == Get(quality_analysis, "overall_score", Neutral)
      speech_quality           == Get(speech_analysis, "overall_score", Neutral)
      transcription_confidence == Get(stt_result, "confidence", Neutral)
      overall_quality ==
        FAdd(FAdd(FMul(FDec(3, 10), audio_quality),
                  FMul(FDec(4, 10), speech_quality)),
             FMul(FDec(3, 10), transcription_confidence))
  IN  Clip(overall_quality)

\* /quality_check: (quality.get('overall_score', 0.5) + speech.get('overall_score', 0.5)) / 2
quality_check_overall(quality_analysis, speech_analysis) ==
  FDiv(FAdd(Get(quality_analysis, "overall_score", Neutral),
            Get(speech_analysis, "overall_score", Neutral)),
       FInt(2))

(***************************************************************************)
(* State.                                                                  *)
(*   fn     : the scoring function called, or the endpoint of the request  *)
(*   args   : the argument tuple of the call; for a request, what the      *)
(*            uploaded media or text makes the extractors measure          *)
(*   pc     : the position of the handler in its code ("call" for a call   *)
(*            of a scoring function)                                       *)
(*   locals : the local variables the handler has assigned so far          *)
(*   ret    : <<>> before, <<value>> after the call or the handler has     *)
(*            returned                                                     *)
(*   files  : the upload folder when requests run side by side: the upload *)
(*            stored under each path                                       *)
(***************************************************************************)
VARIABLES fn, args, pc, locals, ret, files

vars == <<fn, args, pc, locals, ret, files>>

\* the empty dict
EmptyDict == [k \in {} |-> FZero]

\* all dicts with keys among names and values among values
Dicts(names, values) == UNION {[S -> values] : S \in SUBSET names}

\* d1 | d2 (d2's entries win)
Merge(d1, d2) ==
  [k \in DOMAIN d1 \cup DOMAIN d2 |-> IF k \in DOMAIN d2 THEN d2[k] ELSE d1[k]]

\* sub-score values handed to the aggregators, and values of diagnostic entries
\* (rms_db and the like) that sit in the same dict
ScoreValues == {FDec(2, 10), FDec(8, 10), FInt(1)}

DiagnosticValues == {FInt(-20)}

\* a diagnostic key that no weight table names
DiagnosticKey == "rms_db"

\* the score of a uniformly very good input
HighScore == FDec(95, 100)

MetricInputs(weights) ==
  {Merge(m, x) : m \in Dicts(Names(weights), ScoreValues),
                 x \in Dicts({DiagnosticKey}, DiagnosticValues)}
    \cup Dicts(Names(weights), {HighScore})

Aggregators ==
  [_calculate_quality_score |-> audio_quality_weights,
   _calculate_speech_score |-> speech_weights,
   text_calculate_overall_quality |-> text_quality_weights,
   _calculate_clarity_score |-> clarity_weights]

\* the doubles next to x
FNextUp(x) == [x EXCEPT !.m = BAdd(x.m, <<1>>)]

FNextDown(x) == [x EXCEPT !.m = BSub(x.m, <<1>>)]

Breakpoints == {FDec(4, 10), FDec(6, 10), FDec(8, 10), FDec(9, 10)}

LevelInputs ==
  Breakpoints \cup {FNextUp(b) : b \in Breakpoints}
              \cup {FNextDown(b) : b \in Breakpoints}
              \cup {FZero, FDec(5, 10), FDec(7, 10), FDec(7999, 10000),
                    FDec(95, 100), FOne}

Classifiers == {"_get_quality_level", "_get_speech_level", "get_quality_level"}

ReportInputs ==
  Dicts({"overall_score"}, ScoreValues \cup {FZero})

SttInputs == Dicts({"confidence"}, ScoreValues \cup {FZero})

Calls ==
  UNION {{<<f, <<m>> >> : m \in MetricInputs(Aggregators[f])} : f \in DOMAIN Aggregators}
  \cup {<<c, <<x>> >> : c \in Classifiers, x \in LevelInputs}
  \cup {<<"audio_calculate_overall_quality", <<q, s, t>> >> :
           q \in ReportInputs, s \in ReportInputs, t \in SttInputs}
  \cup {<<"quality_check_overall", <<q, s>> >> : q \in ReportInputs, s \in ReportInputs}

InitScore ==
  /\ \E c \in Calls : fn = c[1] /\ args = c[2]
  /\ pc = "call"
  /\ locals = EmptyDict
  /\ ret = <<>>
  /\ files = EmptyDict

Call_calculate_quality_score ==
  /\ fn = "_calculate_quality_score" /\ ret = <<>>
  /\ ret' = <<_calculate_quality_score(args[1])>>
  /\ UNCHANGED <<fn, args, pc, locals, files>>

Call_calculate_speech_score ==
  /\ fn = "_calculate_speech_score" /\ ret = <<>>
  /\ ret' = <<_calculate_speech_score(args[1])>>
  /\ UNCHANGED <<fn, args, pc, locals, files>>

Call_text_calculate_overall_quality ==
  /\ fn = "text_calculate_overall_quality" /\ ret = <<>>
  /\ ret' = <<text_calculate_overall_quality(args[1])>>
  /\ UNCHANGED <<fn, args, pc, locals, files>>

Call_calculate_clarity_score ==
  /\ fn = "_calculate_clarity_score" /\ ret = <<>>
  /\ ret' = <<_calculate_clarity_score(args[1])>>
  /\ UNCHANGED <<fn, args, pc, locals, files>>

Call_audio_calculate_overall_quality ==
  /\ fn = "audio_calculate_overall_quality" /\ ret = <<>>
  /\ ret' = <<audio_calculate_overall_quality(args[1], args[2], args[3])>>
  /\ UNCHANGED <<fn, args, pc, locals, files>>

Call_quality_check_overall ==
  /\ fn = "quality_check_overall" /\ ret = <<>>
  /\ ret' = <<quality_check_overall(args[1], args[2])>>
  /\ UNCHANGED <<fn, args, pc, locals, files>>

Call_get_quality_level ==
  /\ fn = "_get_quality_level" /\ ret = <<>>
  /\ ret' = <<_get_quality_level(args[1])>>
  /\ UNCHANGED <<fn, args, pc, locals, files>>

Call_get_speech_level ==
  /\ fn = "_get_speech_level" /\ ret = <<>>
  /\ ret' = <<_get_speech_level(args[1])>>
  /\ UNCHANGED <<fn, args, pc, locals, files>>

Call_text_get_quality_level ==
  /\ fn = "get_quality_level" /\ ret = <<>>
  /\ ret' = <<get_quality_level(args[1])>>
  /\ UNCHANGED <<fn, args, pc, locals, files>>

NextScore ==
  \/ Call_calculate_quality_score
  \/ Call_calculate_speech_score
  \/ Call_text_calculate_overall_quality
  \/ Call_calculate_clarity_score
  \/ Call_audio_calculate_overall_quality
  \/ Call_quality_check_overall
  \/ Call_get_quality_level
  \/ Call_get_speech_level
  \/ Call_text_get_quality_level

SpecScore == InitScore /\ [][NextScore]_vars

(***************************************************************************)
(* Python's round(x, ndigits) on a double 0 <= x <= 1: the decimal with    *)
(* ndigits digits nearest the exact value of x, ties to the even digit,    *)
(* and then the double nearest that decimal.                               *)
(***************************************************************************)
\* round(float(overall_quality), 4)
RoundDigits == 4

\* the integer a bignum of at most two limbs stands for
BInt(a) ==
  IF a = <<>> THEN 0 ELSE IF Len(a) = 1 THEN a[1] ELSE a[1] + Base * a[2]

\* n / 2^s rounded to the nearest integer, ties to even; q is floor(n / 2^s)
BRoundShr(n, s, q, c) ==
  IF c > 0 \/ (c = 0 /\ BOdd(q)) THEN BInt(q) + 1 ELSE BInt(q)

BRoundDiv(n, s, q) ==
  BRoundShr(n, s, q, BCmp(BSub(n, BShl(q, s)), BShl(<<1>>, s - 1)))

BRoundScaled(n, s) == BRoundDiv(n, s, BShr(n, s))

PyRound(x) ==
  IF x.m = <<>> THEN x
  ELSE FDec(BRoundScaled(BMulS(x.m, 10^RoundDigits, 0), -x.e), 10^RoundDigits)

(***************************************************************************)
(* The services' configuration.                                            *)
(***************************************************************************)
\* audio CONFIG['QUALITY_THRESHOLD'], text CONFIG['QUALITY_THRESHOLD'],
\* facial CONFIG['CONFIDENCE_THRESHOLD']
audio_QUALITY_THRESHOLD == FDec(7, 10)

text_QUALITY_THRESHOLD == FDec(8, 10)

CONFIDENCE_THRESHOLD == FDec(8, 10)

\* "if detection_confidence < 0.7: continue"
MinDetectionConfidence == FDec(7, 10)

\* a faulty variant: the gate open at the threshold
Passed_strict(overall, threshold) == FGt(overall, threshold)

\* "passed = overall >= CONFIG[threshold]"
Passed(overall, threshold) == FGe(overall, threshold)

\* a faulty variant: the rejection is reported as a success
error_response_as_success(error, status) ==
  [success |-> TRUE, error |-> error, status |-> status]

\* a JSON error response
error_response(error, status) == [success |-> FALSE, error |-> error, status |-> status]

(***************************************************************************)
(* Audio service.  The measurements of the extractors (_analyze_volume and *)
(* the others) are given; a report builder that raises inside its try      *)
(* returns its except branch.                                              *)
(***************************************************************************)
\* "return {'overall_score': 0.5, 'error': str(e)}"
failure_report == ("overall_score" :> Neutral) @@ ("error" :> "error")

quality_report(quality_metrics, overall_score) ==
  ("overall_score" :> overall_score)
    @@ ("quality_level" :> _get_quality_level(overall_score))
    @@ quality_metrics

\* a faulty variant: the report keeps the weighted scores only
analyze_audio_quality_filtered(measured) ==
  IF measured.raised THEN failure_report
  ELSE quality_report([n \in DOMAIN measured.metrics \cap Names(audio_quality_weights)
                         |-> measured.metrics[n]],
                      _calculate_quality_score(measured.metrics))

\* AudioProcessor.analyze_audio_quality
analyze_audio_quality(measured) ==
  IF measured.raised THEN failure_report
  ELSE quality_report(measured.metrics, _calculate_quality_score(measured.metrics))

\* a faulty variant: the speech report names its level quality_level
speech_report_with_quality_level(speech_metrics, overall_score) ==
  ("overall_score" :> overall_score)
    @@ ("quality_level" :> _get_speech_level(overall_score))
    @@ speech_metrics

speech_report(speech_metrics, overall_score) ==
  ("overall_score" :> overall_score)
    @@ ("speech_level" :> _get_speech_level(overall_score))
    @@ speech_metrics

\* AudioProcessor.analyze_speech_characteristics
analyze_speech_characteristics(measured) ==
  IF measured.raised THEN failure_report
  ELSE speech_report(measured.metrics, _calculate_speech_score(measured.metrics))

\* SpeechToTextProcessor.transcribe_audio: the engines' result, or the except
\* branch
transcribe_audio(recognized) ==
  IF recognized.raised
    THEN ("transcription" :> "") @@ ("confidence" :> FZero) @@ ("error" :> "error")
    ELSE ("transcription" :> recognized.transcription)
           @@ ("confidence" :> recognized.confidence)
           @@ ("engine_used" :> recognized.engine_used)

\* the success response of /analyze
audio_analyze_response(quality_analysis, speech_analysis, stt_result, overall_quality) ==
  [success |-> TRUE,
   transcription |-> Get(stt_result, "transcription", ""),
   confidence |-> Get(stt_result, "confidence", FZero),
   overall_quality |-> PyRound(overall_quality),
   quality_threshold |-> audio_QUALITY_THRESHOLD,
   passed |-> Passed(overall_quality, audio_QUALITY_THRESHOLD),
   audio_quality |-> quality_analysis,
   speech_analysis |-> speech_analysis]

\* the success response of /quality_check
quality_check_response(quality_analysis, speech_analysis, overall_quality) ==
  [success |-> TRUE,
   overall_quality |-> PyRound(overall_quality),
   passed |-> Passed(overall_quality, audio_QUALITY_THRESHOLD),
   audio_quality |-> quality_analysis,
   speech_analysis |-> speech_analysis]

(***************************************************************************)
(* Text service.                                                           *)
(***************************************************************************)
\* TextProcessor.analyze_text: the measured scores, with the clarity score
\* computed from them
TextProcessor_analyze_text(measured) ==
  IF measured.raised THEN ("error" :> "error")
  ELSE ("clarity_score" :> _calculate_clarity_score(measured.metrics)) @@ measured.metrics

\* the call of the Gemini client raises
GeminiRaises == ("raised" :> TRUE)

\* "gemini_analysis = None; if gemini_client: try: gemini_analysis = ...
\* except: gemini_analysis = {'error': str(e)}"
text_gemini_analysis(outcome) ==
  IF outcome = GeminiRaises THEN ("error" :> "error") ELSE outcome

\* a faulty variant: a failed analysis is blended like a successful one
gemini_succeeded_despite_error(gemini_analysis) ==
  gemini_analysis # None /\ DOMAIN gemini_analysis # {}

\* "gemini_analysis and 'error' not in gemini_analysis"
gemini_succeeded(gemini_analysis) ==
  gemini_analysis # None /\ DOMAIN gemini_analysis # {} /\ "error" \notin DOMAIN gemini_analysis

\* the scores combine_analyses blends: 0.4 text processing, 0.6 Gemini
blended_scores == {"grammar_score", "clarity_score", "relevance_score", "completeness_score"}

blend(text_metrics, gemini_scores) ==
  [score_type \in blended_scores |->
     FAdd(FMul(FDec(4, 10), Get(text_metrics, score_type, Neutral)),
          FMul(FDec(6, 10), Get(gemini_scores, score_type, Neutral)))]

\* combine_analyses
combine_analyses(text_metrics, gemini_analysis) ==
  IF gemini_succeeded(gemini_analysis)
    THEN blend(text_metrics, Get(gemini_analysis, "scores", EmptyDict))
           @@ ("professionalism_score" :>
                 Get(Get(gemini_analysis, "scores", EmptyDict), "professionalism_score", Neutral))
           @@ ("ai_insights" :> Get(gemini_analysis, "insights", <<>>))
           @@ ("content_analysis" :> Get(gemini_analysis, "content_analysis", <<>>))
           @@ text_metrics
    ELSE ("professionalism_score" :> Get(text_metrics, "formality_score", Neutral))
           @@ ("ai_insights" :> <<>>)
           @@ ("content_analysis" :> <<>>)
           @@ text_metrics

\* the names the response lists under combined_scores
combined_scores_names ==
  {"grammar_score", "clarity_score", "relevance_score", "completeness_score",
   "professionalism_score"}

\* the success response of the text /analyze
text_analyze_response(text_metrics, gemini_analysis, combined_analysis, overall_quality) ==
  [success |-> TRUE,
   overall_quality |-> PyRound(overall_quality),
   quality_threshold |-> text_QUALITY_THRESHOLD,
   passed |-> Passed(overall_quality, text_QUALITY_THRESHOLD),
   text_metrics |-> text_metrics,
   ai_analysis |-> gemini_analysis,
   combined_scores |->
     [name \in combined_scores_names |-> Get(combined_analysis, name, Neutral)],
   quality_level |-> get_quality_level(overall_quality),
   gemini_used |-> gemini_analysis # None /\ "error" \notin DOMAIN gemini_analysis]

(***************************************************************************)
(* Facial service.                                                         *)
(***************************************************************************)
\* the success response of the facial /analyze
facial_analyze_response(overall_confidence, valid_detections, analysis_results) ==
  [success |-> TRUE,
   overall_confidence |-> PyRound(overall_confidence),
   threshold |-> CONFIDENCE_THRESHOLD,
   passed |-> Passed(overall_confidence, CONFIDENCE_THRESHOLD),
   valid_detections |-> valid_detections,
   detailed_results |-> analysis_results]

(***************************************************************************)
(* The requests.  A request carries the first check of the handler it      *)
(* fails ("ok" when it fails none) and what the extractors, the speech     *)
(* engines, the Gemini client, the detector and the confidence analyzer    *)
(* yield on its payload.                                                   *)
(***************************************************************************)
\* the longest list of frames of a request
MaxFaces == 2

Uniform(names, v) == [n \in names |-> v]

Measured(profiles) ==
  {[raised |-> TRUE, metrics |-> EmptyDict]}
    \cup {[raised |-> FALSE, metrics |-> m] : m \in profiles}

\* the five metric updates of analyze_audio_quality; an extractor that fails
\* yields its neutral score alone
\* a recording with mixed scores: loud enough, noisy, no silence problem
MixedMetrics ==
  ("volume_quality" :> FDec(9, 10)) @@ ("noise_quality" :> FDec(4, 10))
    @@ ("frequency_quality" :> FDec(7, 10)) @@ ("silence_quality" :> FOne)
    @@ ("distortion_quality" :> FDec(8, 10)) @@ (DiagnosticKey :> FInt(-20))

QualityProfiles ==
  {Uniform(Names(audio_quality_weights), v) @@ (DiagnosticKey :> FInt(-20)) :
     v \in {FOne, FDec(95, 100), FDec(9, 10)}}
    \cup {Uniform(Names(audio_quality_weights), Neutral)}
    \cup {MixedMetrics}

SpeechProfiles ==
  {Uniform(Names(speech_weights), v) @@ ("speech_rate_sps" :> FInt(3)) :
     v \in {FOne, FDec(9, 10)}}
    \cup {Uniform(Names(speech_weights), Neutral)}

\* the engines report a fixed confidence, 0.0 when nothing was recognized
Recognized ==
  {[raised |-> TRUE, transcription |-> "", confidence |-> FZero, engine_used |-> ""],
   [raised |-> FALSE, transcription |-> "", confidence |-> FZero, engine_used |-> "google"],
   [raised |-> FALSE, transcription |-> "hello world", confidence |-> FDec(8, 10),
    engine_used |-> "google"]}

TextMeasuredNames ==
  {"grammar_score", "readability_score", "vocabulary_score", "structure_score",
   "content_score", "completeness_score", "formality_score"}

TextProfiles ==
  {Uniform(TextMeasuredNames, v) @@ ("word_count" :> 40) : v \in {FOne, FDec(8, 10), FDec(6, 10)}}

\* no client, a call that raises, a failed analysis, or the five normalised
\* scores
GeminiOutcomes ==
  {None, GeminiRaises, ("error" :> "error")}
    \cup {("scores" :> Uniform(combined_scores_names, v)) @@ ("insights" :> <<"insight">>) :
            v \in {FOne, FDec(9, 10)}}

\* a frame with one detected face, or a frame whose analysis raises
Frames ==
  {[raised |-> TRUE, detection_confidence |-> FZero, confidence_score |-> FZero]}
    \cup {[raised |-> FALSE, detection_confidence |-> d, confidence_score |-> c] :
            d \in {FDec(6, 10), FDec(7, 10)}, c \in {FZero, FDec(8, 10), FDec(9, 10)}}

FrameLists == UNION {[1..n -> Frames] : n \in 1..MaxFaces}

AudioRejections == {"no_file", "empty_filename", "invalid_file_type", "audio_load_failed"}

QualityCheckRejections == {"no_file", "invalid_file", "audio_load_failed"}

TextRejections == {"no_data", "invalid_input"}

FacialRejections == {"no_file", "empty_filename", "invalid_file_type", "processing_failed"}

Requests ==
  {<<"audio_analyze", [check |-> c]>> : c \in AudioRejections}
    \cup {<<"audio_analyze", [check |-> "ok", quality |-> q, speech |-> s, stt |-> t]>> :
            q \in Measured(QualityProfiles), s \in Measured(SpeechProfiles), t \in Recognized}
    \cup {<<"quality_check", [check |-> c]>> : c \in QualityCheckRejections}
    \cup {<<"quality_check", [check |-> "ok", quality |-> q, speech |-> s]>> :
            q \in Measured(QualityProfiles), s \in Measured(SpeechProfiles)}
    \cup {<<"text_analyze", [check |-> c]>> : c \in TextRejections}
    \cup {<<"text_analyze", [check |-> "ok", text |-> m, gemini |-> g]>> :
            m \in Measured(TextProfiles), g \in GeminiOutcomes}
    \cup {<<"facial_analyze", [check |-> c]>> : c \in FacialRejections}
    \cup {<<"facial_analyze", [check |-> "ok", frames |-> f]>> : f \in FrameLists}

Init ==
  /\ \E r \in Requests : fn = r[1] /\ args = r[2]
  /\ pc = "received"
  /\ locals = EmptyDict
  /\ ret = <<>>
  /\ files = EmptyDict

\* the checks of a handler before its analysis: a 400 response, or go on
validate(handler, go) ==
  /\ fn = handler /\ pc = "received"
  /\ IF args.check = "ok"
       THEN pc' = go /\ ret' = ret
       ELSE pc' = "done" /\ ret' = <<error_response(args.check, 400)>>
  /\ UNCHANGED <<fn, args, locals, files>>

\* the checks of a handler that saves the upload and decodes it: a 400 response
\* (after a failed decoding the saved file is removed first), or go on with
\* the file saved under file_path
validate_upload(handler, undecodable, go) ==
  /\ fn = handler /\ pc = "received"
  /\ IF args.check = "ok"
       THEN pc' = go /\ ret' = ret /\ locals' = ("file_path" :> "saved") @@ locals
       ELSE /\ pc' = "done"
            /\ ret' = <<error_response(args.check, 400)>>
            /\ locals' = IF args.check = undecodable
                           THEN ("file_path" :> "removed") @@ locals
                           ELSE locals
  /\ UNCHANGED <<fn, args, files>>

\* one assignment of a handler to a local variable
assign(handler, at, name, value, go) ==
  /\ fn = handler /\ pc = at
  /\ locals' = (name :> value) @@ locals
  /\ pc' = go
  /\ UNCHANGED <<fn, args, ret, files>>

\* os.remove(file_path)
remove_upload(handler, at, go) == assign(handler, at, "file_path", "removed", go)

\* the handler's return
respond(handler, at, response) ==
  /\ fn = handler /\ pc = at
  /\ ret' = <<response>>
  /\ pc' = "done"
  /\ UNCHANGED <<fn, args, locals, files>>

(***************************************************************************)
(* POST /analyze of the audio service.                                     *)
(***************************************************************************)
audio_analyze_validate == validate_upload("audio_analyze", "audio_load_failed", "quality")

audio_analyze_quality ==
  assign("audio_analyze", "quality", "quality_analysis",
         analyze_audio_quality(args.quality), "transcribe")

audio_analyze_transcribe ==
  assign("audio_analyze", "transcribe", "stt_result", transcribe_audio(args.stt), "speech")

audio_analyze_speech ==
  assign("audio_analyze", "speech", "speech_analysis",
         analyze_speech_characteristics(args.speech), "cleanup")

\* a faulty variant: the extractors are run again after the cleanup
audio_analyze_cleanup_and_retry == remove_upload("audio_analyze", "cleanup", "quality")

audio_analyze_cleanup == remove_upload("audio_analyze", "cleanup", "overall")

audio_analyze_overall ==
  /\ fn = "audio_analyze" /\ pc = "overall"
  /\ assign("audio_analyze", "overall", "overall_quality",
            audio_calculate_overall_quality(locals["quality_analysis"],
                                            locals["speech_analysis"],
                                            locals["stt_result"]), "respond")

audio_analyze_respond ==
  /\ fn = "audio_analyze" /\ pc = "respond"
  /\ respond("audio_analyze", "respond",
             audio_analyze_response(locals["quality_analysis"], locals["speech_analysis"],
                                    locals["stt_result"], locals["overall_quality"]))

(***************************************************************************)
(* POST /quality_check of the audio service.                               *)
(***************************************************************************)
quality_check_validate == validate_upload("quality_check", "audio_load_failed", "quality")

quality_check_quality ==
  assign("quality_check", "quality", "quality_analysis",
         analyze_audio_quality(args.quality), "speech")

quality_check_speech ==
  assign("quality_check", "speech", "speech_analysis",
         analyze_speech_characteristics(args.speech), "overall")

quality_check_calculate ==
  /\ fn = "quality_check" /\ pc = "overall"
  /\ assign("quality_check", "overall", "overall_quality",
            quality_check_overall(locals["quality_analysis"], locals["speech_analysis"]),
            "cleanup")

quality_check_cleanup == remove_upload("quality_check", "cleanup", "respond")

quality_check_respond ==
  /\ fn = "quality_check" /\ pc = "respond"
  /\ respond("quality_check", "respond",
             quality_check_response(locals["quality_analysis"], locals["speech_analysis"],
                                    locals["overall_quality"]))

(***************************************************************************)
(* POST /analyze of the text service.                                      *)
(***************************************************************************)
text_analyze_validate == validate("text_analyze", "process")

text_analyze_process ==
  assign("text_analyze", "process", "text_metrics",
         TextProcessor_analyze_text(args.text), "gemini")

text_analyze_gemini ==
  assign("text_analyze", "gemini", "gemini_analysis", text_gemini_analysis(args.gemini),
         "combine")

text_analyze_combine ==
  /\ fn = "text_analyze" /\ pc = "combine"
  /\ assign("text_analyze", "combine", "combined_analysis",
            combine_analyses(locals["text_metrics"], locals["gemini_analysis"]), "overall")

text_analyze_overall ==
  /\ fn = "text_analyze" /\ pc = "overall"
  /\ assign("text_analyze", "overall", "overall_quality",
            text_calculate_overall_quality(locals["combined_analysis"]), "gate")

\* passed = overall_quality >= CONFIG['QUALITY_THRESHOLD']
text_analyze_gate ==
  /\ fn = "text_analyze" /\ pc = "gate"
  /\ assign("text_analyze", "gate", "passed",
            Passed(locals["overall_quality"], text_QUALITY_THRESHOLD), "respond")

text_analyze_respond ==
  /\ fn = "text_analyze" /\ pc = "respond"
  /\ respond("text_analyze", "respond",
             text_analyze_response(locals["text_metrics"], locals["gemini_analysis"],
                                   locals["combined_analysis"], locals["overall_quality"]))

(***************************************************************************)
(* POST /analyze of the facial service.                                    *)
(***************************************************************************)
facial_analyze_validate ==
  /\ fn = "facial_analyze" /\ pc = "received"
  /\ IF args.check = "ok"
       THEN /\ pc' = "frames"
            /\ ret' = ret
            /\ locals' = ("analysis_results" :> <<>>) @@ ("total_confidence" :> FZero)
                           @@ ("valid_detections" :> 0) @@ ("i" :> 1)
                           @@ ("file_path" :> "saved")
       ELSE /\ pc' = "done"
            /\ ret' = <<error_response(args.check, 400)>>
            /\ locals' = IF args.check = "processing_failed"
                           THEN ("file_path" :> "removed") @@ locals
                           ELSE locals
  /\ UNCHANGED <<fn, args, files>>

\* a faulty variant: a low-confidence detection is analysed and counted too
facial_frame_counting_low(frame) ==
  IF frame.raised
    THEN locals' = [locals EXCEPT !["i"] = @ + 1]
    ELSE locals' = [locals EXCEPT
                      !["analysis_results"] =
                         Append(@, [frame_index |-> locals["i"] - 1,
                                    detection_confidence |-> frame.detection_confidence,
                                    confidence_score |-> frame.confidence_score]),
                      !["total_confidence"] = FAdd(@, frame.confidence_score),
                      !["valid_detections"] = @ + 1,
                      !["i"] = @ + 1]

\* the body of the loop on one frame
facial_frame(frame) ==
  IF frame.raised \/ FLt(frame.detection_confidence, MinDetectionConfidence)
    THEN locals' = [locals EXCEPT !["i"] = @ + 1]
    ELSE locals' = [locals EXCEPT
                      !["analysis_results"] =
                         Append(@, [frame_index |-> locals["i"] - 1,
                                    detection_confidence |-> frame.detection_confidence,
                                    confidence_score |-> frame.confidence_score]),
                      !["total_confidence"] = FAdd(@, frame.confidence_score),
                      !["valid_detections"] = @ + 1,
                      !["i"] = @ + 1]

facial_analyze_frame ==
  /\ fn = "facial_analyze" /\ pc = "frames"
  /\ locals["i"] <= Len(args.frames)
  /\ facial_frame(args.frames[locals["i"]])
  /\ UNCHANGED <<fn, args, pc, ret, files>>

\* after the loop: os.remove(file_path)
facial_analyze_cleanup ==
  /\ fn = "facial_analyze" /\ pc = "frames"
  /\ locals["i"] > Len(args.frames)
  /\ remove_upload("facial_analyze", "frames", "respond")

facial_analyze_respond ==
  /\ fn = "facial_analyze" /\ pc = "respond"
  /\ IF locals["valid_detections"] = 0
       THEN ret' = <<error_response("no_valid_faces", 400)>>
       ELSE ret' = <<facial_analyze_response(
                       FDiv(locals["total_confidence"], FInt(locals["valid_detections"])),
                       locals["valid_detections"], locals["analysis_results"])>>
  /\ pc' = "done"
  /\ UNCHANGED <<fn, args, locals, files>>

Next ==
  \/ audio_analyze_validate
  \/ audio_analyze_quality
  \/ audio_analyze_transcribe
  \/ audio_analyze_speech
  \/ audio_analyze_cleanup
  \/ audio_analyze_overall
  \/ audio_analyze_respond
  \/ quality_check_validate
  \/ quality_check_quality
  \/ quality_check_speech
  \/ quality_check_calculate
  \/ quality_check_cleanup
  \/ quality_check_respond
  \/ text_analyze_validate
  \/ text_analyze_process
  \/ text_analyze_gemini
  \/ text_analyze_combine
  \/ text_analyze_overall
  \/ text_analyze_gate
  \/ text_analyze_respond
  \/ facial_analyze_validate
  \/ facial_analyze_frame
  \/ facial_analyze_cleanup
  \/ facial_analyze_respond

Spec == Init /\ [][Next]_vars

(***************************************************************************)
(* The feature extractors, from their intermediate measurements to the     *)
(* sub-score they return.  A measurement record m has m.raised when the    *)
(* extractor's computation raised and its except branch returns.           *)
(***************************************************************************)
\* AudioProcessor.quality_thresholds
quality_thresholds ==
  [snr_threshold |-> FInt(20), volume_min |-> FInt(-40), volume_max |-> FInt(-6),
   silence_ratio_max |-> FDec(3, 10)]

FAbs(x) == IF FLt(x, FZero) THEN FNeg(x) ELSE x

_analyze_volume(m) ==
  IF m.raised THEN ("volume_quality" :> Neutral)
  ELSE ("rms_db" :> m.rms_db)
         @@ ("volume_quality" :>
               IF FLt(m.rms_db, quality_thresholds.volume_min) THEN FMul(FOne, FDec(5, 10))
               ELSE IF FGt(m.rms_db, quality_thresholds.volume_max)
                      THEN FMul(FOne, FDec(7, 10))
                      ELSE FOne)

_analyze_noise(m) ==
  IF m.raised THEN ("noise_quality" :> Neutral)
  ELSE ("snr_db" :> m.avg_snr)
         @@ ("noise_quality" :>
               IF FLt(m.avg_snr, quality_thresholds.snr_threshold)
                 THEN FMul(FOne, FMax(FDec(1, 10),
                                      FDiv(m.avg_snr, quality_thresholds.snr_threshold)))
                 ELSE FOne)

_analyze_frequency_content(m) ==
  IF m.raised THEN ("frequency_quality" :> Neutral)
  ELSE ("mid_ratio" :> m.mid_ratio)
         @@ ("frequency_quality" :> FMin(FOne, FMul(m.mid_ratio, FInt(3))))

_analyze_silence(m) ==
  IF m.raised THEN ("silence_quality" :> Neutral)
  ELSE ("silence_ratio" :> m.silence_ratio)
         @@ ("silence_quality" :>
               IF FGt(m.silence_ratio, quality_thresholds.silence_ratio_max)
                 THEN FMax(FDec(1, 10), FSub(FOne, m.silence_ratio))
                 ELSE FOne)

\* "if thd > 0.1: distortion_quality *= max(0.1, 1.0 - thd)"
distortion_thd(distortion_quality, thd) ==
  IF FGt(thd, FDec(1, 10))
    THEN FMul(distortion_quality, FMax(FDec(1, 10), FSub(FOne, thd)))
    ELSE distortion_quality

_analyze_distortion(m) ==
  IF m.raised THEN ("distortion_quality" :> Neutral)
  ELSE ("thd" :> m.thd)
         @@ ("distortion_quality" :>
               distortion_thd(IF FGt(m.clipping_ratio, FDec(1, 100))
                                THEN FMul(FOne, FSub(FOne, m.clipping_ratio))
                                ELSE FOne,
                              m.thd))

_analyze_speech_rate(m) ==
  IF m.raised THEN ("rate_quality" :> Neutral)
  ELSE ("speech_rate_sps" :> m.speech_rate)
         @@ ("rate_quality" :>
               IF FLt(m.speech_rate, FInt(2)) \/ FGt(m.speech_rate, FInt(8))
                 THEN FMax(FDec(1, 10),
                           FSub(FOne, FDiv(FAbs(FSub(m.speech_rate, FInt(5))), FInt(5))))
                 ELSE FOne)

\* "if pitch_variation < 0.05: ... elif pitch_variation > 0.3: ..."
pitch_variation_penalty(pitch_quality, pitch_variation) ==
  IF FLt(pitch_variation, FDec(5, 100)) THEN FMul(pitch_quality, FDec(6, 10))
  ELSE IF FGt(pitch_variation, FDec(3, 10)) THEN FMul(pitch_quality, FDec(7, 10))
  ELSE pitch_quality

_analyze_pitch(m) ==
  IF m.raised THEN ("pitch_quality" :> Neutral)
  ELSE IF ~m.voiced THEN ("pitch_quality" :> Neutral) @@ ("error" :> "No pitch detected")
  ELSE ("mean_f0" :> m.mean_f0)
         @@ ("pitch_quality" :>
               pitch_variation_penalty(
                 IF FLt(m.mean_f0, FInt(75)) \/ FGt(m.mean_f0, FInt(300))
                   THEN FMul(FOne, FDec(7, 10))
                   ELSE FOne,
                 m.pitch_variation))

\* a faulty variant: the quality is not bounded above
_analyze_articulation_without_cap(m) ==
  IF m.raised THEN ("articulation_quality" :> Neutral)
  ELSE ("spectral_clarity" :> m.spectral_clarity)
         @@ ("articulation_quality" :>
               FDiv(FAdd(FMul(m.spectral_clarity, FInt(2)), FDiv(m.avg_contrast, FInt(20))),
                    FInt(2)))

_analyze_articulation(m) ==
  IF m.raised THEN ("articulation_quality" :> Neutral)
  ELSE ("spectral_clarity" :> m.spectral_clarity)
         @@ ("articulation_quality" :>
               FMin(FOne,
                    FDiv(FAdd(FMul(m.spectral_clarity, FInt(2)),
                              FDiv(m.avg_contrast, FInt(20))),
                         FInt(2))))

\* "if max_pause_duration > 3.0: fluency_quality *= 0.5"
long_pause_penalty(fluency_quality, max_pause_duration) ==
  IF FGt(max_pause_duration, FInt(3)) THEN FMul(fluency_quality, FDec(5, 10))
  ELSE fluency_quality

_analyze_fluency(m) ==
  IF m.raised THEN ("fluency_quality" :> Neutral)
  ELSE ("pause_frequency" :> m.pause_frequency)
         @@ ("fluency_quality" :>
               long_pause_penalty(
                 IF FGt(m.pause_frequency, FDec(5, 10))
                   THEN FMul(FOne, FMax(FDec(3, 10), FSub(FOne, m.pause_frequency)))
                   ELSE FOne,
                 m.max_pause_duration))

\* TextProcessor.check_grammar, from the number of issues found
check_grammar(m) ==
  IF m.raised THEN ("overall_score" :> Neutral) @@ ("error" :> "error")
  ELSE ("total_issues" :> m.grammar_issues)
         @@ ("overall_score" :>
               PyRound(FMax(FZero, FSub(FOne, FMul(FInt(m.grammar_issues), FDec(5, 100))))))

\* the score of a Flesch reading ease
readability_score(flesch_score) ==
  IF FLe(FInt(60), flesch_score) /\ FLe(flesch_score, FInt(70)) THEN FOne
  ELSE IF (FLe(FInt(50), flesch_score) /\ FLt(flesch_score, FInt(60)))
            \/ (FLt(FInt(70), flesch_score) /\ FLe(flesch_score, FInt(80)))
         THEN FDec(8, 10)
  ELSE IF (FLe(FInt(40), flesch_score) /\ FLt(flesch_score, FInt(50)))
            \/ (FLt(FInt(80), flesch_score) /\ FLe(flesch_score, FInt(90)))
         THEN FDec(6, 10)
  ELSE FDec(4, 10)

analyze_readability(m) ==
  IF m.raised THEN ("overall_score" :> Neutral) @@ ("error" :> "error")
  ELSE ("flesch_reading_ease" :> m.flesch_score)
         @@ ("overall_score" :> PyRound(readability_score(m.flesch_score)))

\* the structure score before "max(0.0, min(1.0, structure_score))"
structure_bonuses(sentence_count, transition_count, flow_indicators) ==
  FAdd(FAdd(IF 3 <= sentence_count /\ sentence_count <= 8 THEN FAdd(FDec(5, 10), FDec(2, 10))
            ELSE IF sentence_count < 3 THEN FSub(FDec(5, 10), FDec(1, 10))
            ELSE FDec(5, 10),
            FMin(FDec(2, 10),
                 FMul(IF sentence_count > 0
                        THEN FDiv(FInt(transition_count), FInt(sentence_count))
                        ELSE FZero,
                      FInt(2)))),
       FMul(FInt(flow_indicators), FDec(1, 10)))

_analyze_structure(m) ==
  IF m.raised THEN ("overall_score" :> Neutral) @@ ("error" :> "error")
  ELSE ("sentence_count" :> m.sentence_count)
         @@ ("overall_score" :>
               PyRound(Clip(structure_bonuses(m.sentence_count, m.transition_count,
                                               m.flow_indicators))))

\* the word count score of _calculate_completeness_score
length_score(word_count) ==
  IF 75 <= word_count /\ word_count <= 200 THEN FOne
  ELSE IF (50 <= word_count /\ word_count < 75) \/ (200 < word_count /\ word_count <= 300)
         THEN FDec(8, 10)
  ELSE IF (25 <= word_count /\ word_count < 50) \/ (300 < word_count /\ word_count <= 400)
         THEN FDec(6, 10)
  ELSE FDec(4, 10)

_calculate_completeness_score(analysis) ==
  PyRound(FAdd(FAdd(FMul(length_score(Get(analysis, "word_count", 0)), FDec(4, 10)),
                    FMul(Get(analysis, "content_score", Neutral), FDec(4, 10))),
               FMul(Get(analysis, "structure_score", Neutral), FDec(2, 10))))

_calculate_formality_score(analysis) ==
  FMax(FZero,
       FMin(FOne,
            PyRound(FSub(FAdd(FDec(7, 10),
                              FMul(Get(Get(analysis, "vocabulary_details", EmptyDict),
                                       "professional_words_ratio", FZero),
                                   FInt(2))),
                         FMul(Get(Get(analysis, "vocabulary_details", EmptyDict),
                                  "informal_words_ratio", FZero),
                              FInt(3))))))

\* the weights of the four methods of analyze_confidence
confidence_method_weights == <<FDec(4, 10), FDec(3, 10), FDec(2, 10), FDec(1, 10)>>

\* np.average(confidence_scores, weights=weights)
average(scores, weights) ==
  FDiv(FAdd(FAdd(FAdd(FMul(scores[1], weights[1]), FMul(scores[2], weights[2])),
                 FMul(scores[3], weights[3])),
            FMul(scores[4], weights[4])),
       FAdd(FAdd(FAdd(weights[1], weights[2]), weights[3]), weights[4]))

\* ConfidenceAnalyzer.analyze_confidence
analyze_confidence(m) ==
  IF m.raised \/ ~m.features THEN FZero
  ELSE Clip(average(m.confidence_scores, confidence_method_weights))

(***************************************************************************)
(* Calls of the extractors.  Here                                          *)
(*   fn   : the extractor                                                  *)
(*   args : <<m>>, its intermediate measurements or its failure            *)
(*   ret  : <<>> before the call, <<result>> after it                      *)
(***************************************************************************)
\* the computation raised
Failed == [raised |-> TRUE]

AudioQualityMeasurements ==
  {<<"_analyze_volume", [raised |-> FALSE, rms_db |-> FInt(v)]>> :
     v \in {-200, -41, -40, -20, -6, -5, 0}}
  \cup {<<"_analyze_noise", [raised |-> FALSE, avg_snr |-> FInt(v)]>> :
          v \in {-200, -1, 0, 1, 2, 10, 19, 20, 40}}
  \cup {<<"_analyze_frequency_content", [raised |-> FALSE, mid_ratio |-> FDec(v, 100)]>> :
          v \in {0, 10, 33, 34, 50, 100}}
  \cup {<<"_analyze_silence", [raised |-> FALSE, silence_ratio |-> FDec(v, 100)]>> :
          v \in {0, 30, 31, 50, 95, 100}}
  \cup {<<"_analyze_distortion",
          [raised |-> FALSE, clipping_ratio |-> FDec(c, 100), thd |-> FDec(t, 100)]>> :
          c \in {0, 1, 2, 50, 100}, t \in {0, 10, 20, 95, 300}}
  \cup {<<f, Failed>> : f \in {"_analyze_volume", "_analyze_noise",
                               "_analyze_frequency_content", "_analyze_silence",
                               "_analyze_distortion"}}

SpeechMeasurements ==
  {<<"_analyze_speech_rate", [raised |-> FALSE, speech_rate |-> FDec(v, 10)]>> :
     v \in {0, 10, 19, 20, 50, 80, 81, 95, 300}}
  \cup {<<"_analyze_pitch",
          [raised |-> FALSE, voiced |-> TRUE, mean_f0 |-> FInt(f),
           pitch_variation |-> FDec(v, 100)]>> :
          f \in {50, 75, 150, 300, 400}, v \in {1, 5, 10, 30, 50}}
  \cup {<<"_analyze_pitch", [raised |-> FALSE, voiced |-> FALSE]>>}
  \cup {<<"_analyze_articulation",
          [raised |-> FALSE, spectral_clarity |-> FDec(c, 10), avg_contrast |-> FInt(k)]>> :
          c \in {0, 1, 5, 10, 30}, k \in {0, 10, 20, 40}}
  \cup {<<"_analyze_fluency",
          [raised |-> FALSE, pause_frequency |-> FDec(p, 10),
           max_pause_duration |-> FInt(d)]>> :
          p \in {0, 5, 6, 9, 20}, d \in {0, 3, 4}}
  \cup {<<f, Failed>> : f \in {"_analyze_speech_rate", "_analyze_pitch",
                               "_analyze_articulation", "_analyze_fluency"}}

TextMeasurements ==
  {<<"check_grammar", [raised |-> FALSE, grammar_issues |-> n]>> : n \in {0, 1, 7, 20, 25}}
  \cup {<<"analyze_readability", [raised |-> FALSE, flesch_score |-> FInt(v)]>> :
          v \in {-20, 30, 40, 50, 60, 65, 70, 75, 80, 85, 90, 100, 120}}
  \cup {<<"_analyze_structure",
          [raised |-> FALSE, sentence_count |-> s, transition_count |-> t,
           flow_indicators |-> i]>> :
          s \in {0, 1, 3, 8, 9}, t \in {0, 1, 4}, i \in {0, 3}}
  \cup {<<f, Failed>> : f \in {"check_grammar", "analyze_readability", "_analyze_structure"}}

CompositeInputs ==
  {<<"_calculate_completeness_score",
     ("word_count" :> w) @@ Uniform({"content_score", "structure_score"}, v)>> :
     w \in {0, 25, 50, 75, 200, 300, 400, 500}, v \in {FZero, Neutral, FOne}}
  \cup {<<"_calculate_completeness_score", EmptyDict>>}
  \cup {<<"_calculate_formality_score",
          ("vocabulary_details" :>
             (("professional_words_ratio" :> FDec(p, 100))
                @@ ("informal_words_ratio" :> FDec(i, 100))))>> :
          p \in {0, 5, 15, 50}, i \in {0, 10, 25, 100}}
  \cup {<<"_calculate_formality_score", EmptyDict>>}

ConfidenceMeasurements ==
  {<<"analyze_confidence", [raised |-> FALSE, features |-> FALSE]>>,
   <<"analyze_confidence", Failed>>}
  \cup {<<"analyze_confidence",
          [raised |-> FALSE, features |-> TRUE, confidence_scores |-> <<a, b, c, d>>]>> :
          a \in {FZero, FOne}, b \in {Neutral, FOne}, c \in {FZero, FDec(9, 10)},
          d \in {Neutral, FOne}}

Extractions ==
  AudioQualityMeasurements \cup SpeechMeasurements \cup TextMeasurements
    \cup CompositeInputs \cup ConfidenceMeasurements
    \cup {<<"transcribe_audio", r>> : r \in Recognized}
    \cup {<<"TextProcessor_analyze_text", t>> : t \in Measured(TextProfiles)}

\* the two analyses combine_analyses is given
CombineInputs ==
  {<<TextProcessor_analyze_text(t), g>> :
     t \in Measured(TextProfiles),
     g \in GeminiOutcomes
            \cup {("scores" :> Uniform(combined_scores_names, FZero)),
                  ("scores" :> ("grammar_score" :> FOne))}}

InitExtract ==
  /\ \/ \E c \in Extractions : fn = c[1] /\ args = <<c[2]>>
     \/ \E c \in CombineInputs : fn = "combine_analyses" /\ args = c
  /\ pc = "extract"
  /\ locals = EmptyDict
  /\ ret = <<>>
  /\ files = EmptyDict

\* the extractor f is called on the measurements and returns
extract(f, result) ==
  /\ pc = "extract" /\ fn = f /\ ret = <<>>
  /\ ret' = <<result>>
  /\ UNCHANGED <<fn, args, pc, locals, files>>

\* the extractors analyze_audio_quality calls
Extract_audio_quality ==
  \/ extract("_analyze_volume", _analyze_volume(args[1]))
  \/ extract("_analyze_noise", _analyze_noise(args[1]))
  \/ extract("_analyze_frequency_content", _analyze_frequency_content(args[1]))
  \/ extract("_analyze_silence", _analyze_silence(args[1]))
  \/ extract("_analyze_distortion", _analyze_distortion(args[1]))

\* the extractors analyze_speech_characteristics calls
Extract_speech ==
  \/ extract("_analyze_speech_rate", _analyze_speech_rate(args[1]))
  \/ extract("_analyze_pitch", _analyze_pitch(args[1]))
  \/ extract("_analyze_articulation", _analyze_articulation(args[1]))
  \/ extract("_analyze_fluency", _analyze_fluency(args[1]))

\* the sub-analyses TextProcessor.analyze_text calls
Extract_text ==
  \/ extract("check_grammar", check_grammar(args[1]))
  \/ extract("analyze_readability", analyze_readability(args[1]))
  \/ extract("_analyze_structure", _analyze_structure(args[1]))

\* the composite scores of TextProcessor.analyze_text
Extract_composite ==
  \/ extract("_calculate_completeness_score", _calculate_completeness_score(args[1]))
  \/ extract("_calculate_formality_score", _calculate_formality_score(args[1]))

Extract_confidence == extract("analyze_confidence", analyze_confidence(args[1]))

Extract_transcription == extract("transcribe_audio", transcribe_audio(args[1]))

Extract_text_analysis ==
  extract("TextProcessor_analyze_text", TextProcessor_analyze_text(args[1]))

Extract_combine_analyses ==
  extract("combine_analyses", combine_analyses(args[1], args[2]))

NextExtract ==
  \/ Extract_combine_analyses
  \/ Extract_audio_quality
  \/ Extract_speech
  \/ Extract_text
  \/ Extract_composite
  \/ Extract_confidence
  \/ Extract_transcription
  \/ Extract_text_analysis

SpecExtract == InitExtract /\ [][NextExtract]_vars

(***************************************************************************)

(* POST /analyze of the audio service served by several threads of one     *)
(* process (app.run(threaded=True)).  Here                                 *)
(*   fn     : "threads"                                                    *)
(*   args   : the upload of each request: file name, second of arrival,    *)
(*            recording                                                    *)
(*   pc     : the position of each thread in analyze_audio                 *)
(*   locals : the local variables of each thread                           *)
(*   ret    : the response of each thread, <<>> before it returns          *)
(*   files  : the upload folder: under each path, the request whose upload *)
(*            was saved there last                                         *)
(***************************************************************************)
\* the most requests in flight
MaxThreads == 2

Threads == 1..MaxThreads

\* what the extractors and the engines yield on two different recordings
Recordings ==
  {[quality |-> [raised |-> FALSE, metrics |-> MixedMetrics],
    speech |-> [raised |-> FALSE,
                metrics |-> Uniform(Names(speech_weights), FDec(9, 10))],
    stt |-> [raised |-> FALSE, transcription |-> "hello world",
             confidence |-> FDec(8, 10), engine_used |-> "google"]],
   [quality |-> [raised |-> FALSE,
                 metrics |-> Uniform(Names(audio_quality_weights), FOne)],
    speech |-> [raised |-> FALSE, metrics |-> Uniform(Names(speech_weights), FOne)],
    stt |-> [raised |-> FALSE, transcription |-> "good morning",
             confidence |-> FDec(8, 10), engine_used |-> "google"]]}

Uploads ==
  [filename : {"answer.wav"}, timestamp : {"20240101_120000", "20240101_120001"},
   recording : Recordings]

\* f"{timestamp}_{filename}" under UPLOAD_FOLDER
upload_path(upload) == <<upload.timestamp, upload.filename>>

InitThreads ==
  /\ fn = "threads"
  /\ args \in [Threads -> Uploads]
  /\ pc = [t \in Threads |-> "save"]
  /\ locals = [t \in Threads |-> EmptyDict]
  /\ ret = [t \in Threads |-> <<>>]
  /\ files = EmptyDict

\* thread t assigns a local variable and goes on
thread_assign(t, name, value, go) ==
  /\ locals' = [locals EXCEPT ![t] = (name :> value) @@ @]
  /\ pc' = [pc EXCEPT ![t] = go]

\* os.remove(file_path) inside "try: ... except: pass"
removed(folder, path) == [p \in DOMAIN folder \ {path} |-> folder[p]]

\* file.save(file_path): the upload replaces what the path held
thread_save(t) ==
  /\ fn = "threads" /\ pc[t] = "save"
  /\ files' = (upload_path(args[t]) :> t) @@ files
  /\ thread_assign(t, "file_path", upload_path(args[t]), "load")
  /\ UNCHANGED <<fn, args, ret>>

\* load_audio_file(file_path): the recording the path holds now; when the
\* path holds nothing audio_data is None, os.remove(file_path) raises and the
\* outer except answers 500
thread_load(t) ==
  /\ fn = "threads" /\ pc[t] = "load"
  /\ IF locals[t]["file_path"] \in DOMAIN files
       THEN /\ thread_assign(t, "audio_data", files[locals[t]["file_path"]], "analyze")
            /\ ret' = ret
       ELSE /\ thread_assign(t, "audio_data", None, "done")
            /\ ret' = [ret EXCEPT ![t] = <<error_response("internal_error", 500)>>]
  /\ UNCHANGED <<fn, args, files>>

\* the three analyses of the decoded recording
thread_analyze(t) ==
  /\ fn = "threads" /\ pc[t] = "analyze"
  /\ locals' =
       [locals EXCEPT ![t] =
          ("quality_analysis" :>
             analyze_audio_quality(args[locals[t]["audio_data"]].recording.quality))
            @@ ("stt_result" :>
                  transcribe_audio(args[locals[t]["audio_data"]].recording.stt))
            @@ ("speech_analysis" :>
                  analyze_speech_characteristics(
                    args[locals[t]["audio_data"]].recording.speech))
            @@ @]
  /\ pc' = [pc EXCEPT ![t] = "cleanup"]
  /\ UNCHANGED <<fn, args, ret, files>>

\* "try: os.remove(file_path) except: pass"
thread_cleanup(t) ==
  /\ fn = "threads" /\ pc[t] = "cleanup"
  /\ files' = removed(files, locals[t]["file_path"])
  /\ pc' = [pc EXCEPT ![t] = "respond"]
  /\ UNCHANGED <<fn, args, locals, ret>>

\* the response /analyze gives for the three analyses
analyze_audio_respond(quality_analysis, speech_analysis, stt_result) ==
  audio_analyze_response(quality_analysis, speech_analysis, stt_result,
                         audio_calculate_overall_quality(quality_analysis, speech_analysis,
                                                         stt_result))

thread_respond(t) ==
  /\ fn = "threads" /\ pc[t] = "respond"
  /\ ret' = [ret EXCEPT ![t] =
               <<analyze_audio_respond(locals[t]["quality_analysis"],
                                       locals[t]["speech_analysis"],
                                       locals[t]["stt_result"])>>]
  /\ pc' = [pc EXCEPT ![t] = "done"]
  /\ UNCHANGED <<fn, args, locals, files>>

Thread_save == \E t \in Threads : thread_save(t)

Thread_load == \E t \in Threads : thread_load(t)

Thread_analyze == \E t \in Threads : thread_analyze(t)

Thread_cleanup == \E t \in Threads : thread_cleanup(t)

Thread_respond == \E t \in Threads : thread_respond(t)

NextThreads ==
  \/ Thread_save
  \/ Thread_load
  \/ Thread_analyze
  \/ Thread_cleanup
  \/ Thread_respond

SpecThreads == InitThreads /\ [][NextThreads]_vars

(***************************************************************************)

(* The speech engines and the Gemini client: the loops that call an        *)
(* outside service again after a failure.  Here                            *)
(*   fn     : "_transcribe_with_fallback" or "_get_gemini_response"        *)
(*   args   : what the outside service does on each call, and the          *)
(*            parameters of the call                                       *)
(*   pc     : the position in the loop                                     *)
(*   locals : the local variables, and the log of the calls and sleeps     *)
(*   ret    : <<>> before, <<[returned |-> value]>> or                     *)
(*            <<[raised |-> exception]>> after the function has left       *)
(***************************************************************************)
\* self.engine_priority
engine_priority == <<"google", "sphinx", "wit">>

\* what a recognize_* call of the speech_recognition library does
RecognizerOutcomes == {"text", "UnknownValueError", "RequestError", "Exception"}

\* the dict an engine returns from its "except sr.UnknownValueError" and
\* "except sr.RequestError" branches
engine_error_result(error, language) ==
  ("transcription" :> "") @@ ("confidence" :> FZero) @@ ("error" :> error)
    @@ ("language_detected" :> language)

\* the dict an engine returns for a transcription
engine_result(transcription, confidence, language, include_timestamps) ==
  ("transcription" :> transcription) @@ ("confidence" :> confidence)
    @@ ("language_detected" :> language)
    @@ ("timestamps" :> IF include_timestamps THEN <<>> ELSE None)

\* the body shared by _transcribe_google, _transcribe_sphinx and
\* _transcribe_wit once the engine's own precondition holds: the recognizer's
\* two exceptions are caught and turned into a result, any other propagates
recognize(outcome, error, confidence, detected, language, include_timestamps) ==
  CASE outcome = "text" ->
         [raised |-> FALSE,
          result |-> engine_result("hello world", confidence, detected, include_timestamps)]
    [] outcome = "UnknownValueError" ->
         [raised |-> FALSE,
          result |-> engine_error_result("Could not understand audio", language)]
    [] outcome = "RequestError" ->
         [raised |-> FALSE, result |-> engine_error_result(error, language)]
    [] OTHER -> [raised |-> TRUE]

_transcribe_google(outcome, language, include_timestamps) ==
  recognize(outcome, "Google API error", FDec(8, 10), language, language, include_timestamps)

\* "if not language.startswith('en'): raise"
_transcribe_sphinx(outcome, language, include_timestamps) ==
  IF language \notin {"en-US", "en-GB"} THEN [raised |-> TRUE]
  ELSE recognize(outcome, "Sphinx error", FDec(6, 10), "en-US", language, include_timestamps)

\* "if not wit_key: raise"
_transcribe_wit(outcome, wit_key, language, include_timestamps) ==
  IF ~wit_key THEN [raised |-> TRUE]
  ELSE recognize(outcome, "Wit.ai error", FDec(7, 10), language, language, include_timestamps)

\* self.engines[engine_name](audio_data, language, include_timestamps)
engines(engine_name, a) ==
  CASE engine_name = "google" ->
         _transcribe_google(a.recognizer[engine_name], a.language, a.include_timestamps)
    [] engine_name = "sphinx" ->
         _transcribe_sphinx(a.recognizer[engine_name], a.language, a.include_timestamps)
    [] engine_name = "wit" ->
         _transcribe_wit(a.recognizer[engine_name], a.wit_key, a.language, a.include_timestamps)

\* the result when the loop over the engines is exhausted
all_engines_failed ==
  ("transcription" :> "") @@ ("confidence" :> FZero) @@ ("error" :> "All engines failed")
    @@ ("engine_used" :> "none")

FallbackInputs ==
  [recognizer : [{"google", "sphinx", "wit"} -> RecognizerOutcomes],
   language : {"en-US", "fr-FR"},
   wit_key : BOOLEAN,
   include_timestamps : BOOLEAN]

\* a faulty variant: the loop passes over the engine after a failed one
next_engine_skipping(i) == i + 2

\* "for engine_name in self.engine_priority": the engine after the i-th
next_engine(i) == i + 1

\* one pass of the loop body: the engine is called; its result is tagged and
\* returned, or its exception is kept and the loop continues
fallback_try ==
  /\ fn = "_transcribe_with_fallback" /\ pc = "loop"
  /\ locals["i"] <= Len(engine_priority)
  /\ IF engines(engine_priority[locals["i"]], args).raised
       THEN /\ locals' = ("i" :> next_engine(locals["i"]))
                           @@ ("tried" :> Append(locals["tried"], engine_priority[locals["i"]]))
                           @@ ("last_error" :> engine_priority[locals["i"]])
            /\ UNCHANGED <<pc, ret>>
       ELSE /\ locals' = ("tried" :> Append(locals["tried"], engine_priority[locals["i"]]))
                           @@ locals
            /\ ret' = <<[returned |->
                           ("engine_used" :> engine_priority[locals["i"]])
                             @@ engines(engine_priority[locals["i"]], args).result]>>
            /\ pc' = "done"
  /\ UNCHANGED <<fn, args, files>>

\* the loop is exhausted: "All engines failed"
fallback_exhausted ==
  /\ fn = "_transcribe_with_fallback" /\ pc = "loop"
  /\ locals["i"] > Len(engine_priority)
  /\ ret' = <<[returned |-> all_engines_failed]>>
  /\ pc' = "done"
  /\ UNCHANGED <<fn, args, locals, files>>

\* the largest max_retries
MaxRetries == 3

\* response.text of a generate_content call, as its sequence of characters
GeminiTexts == {<<>>, <<" ">>, <<"O", "K">>, <<" ", "O", "K", "\n">>}

\* what a generate_content call does
GeminiResponses ==
  {[raised |-> TRUE, text |-> <<>>]} \cup {[raised |-> FALSE, text |-> t] : t \in GeminiTexts}

Whitespace == {" ", "\n", "\t"}

\* str.lstrip and str.strip
RECURSIVE lstrip(_)
lstrip(text) ==
  IF text # <<>> /\ Head(text) \in Whitespace THEN lstrip(Tail(text)) ELSE text

RECURSIVE strip(_)
strip(text) ==
  IF lstrip(text) # <<>> /\ lstrip(text)[Len(lstrip(text))] \in Whitespace
    THEN strip(SubSeq(lstrip(text), 1, Len(lstrip(text)) - 1))
    ELSE lstrip(text)

GeminiInputs ==
  UNION {[max_retries : {n}, api : [1..n -> GeminiResponses]] : n \in 0..MaxRetries}

\* the try block of one attempt: the call, and "if response.text: return
\* response.text.strip() else: raise"
gemini_attempt ==
  /\ fn = "_get_gemini_response" /\ pc = "attempt"
  /\ locals["attempt"] < args.max_retries
  /\ IF ~args.api[locals["attempt"] + 1].raised /\ args.api[locals["attempt"] + 1].text # <<>>
       THEN /\ ret' = <<[returned |-> strip(args.api[locals["attempt"] + 1].text)]>>
            /\ pc' = "done"
       ELSE /\ ret' = ret
            /\ pc' = "except"
  /\ locals' = ("calls" :> locals["calls"] + 1) @@ locals
  /\ UNCHANGED <<fn, args, files>>

\* the except block when another attempt follows: time.sleep((attempt + 1) * 2)
gemini_backoff ==
  /\ fn = "_get_gemini_response" /\ pc = "except"
  /\ locals["attempt"] < args.max_retries - 1
  /\ locals' = ("attempt" :> locals["attempt"] + 1)
                 @@ ("sleeps" :> Append(locals["sleeps"], (locals["attempt"] + 1) * 2))
                 @@ locals
  /\ pc' = "attempt"
  /\ UNCHANGED <<fn, args, ret, files>>

\* the except block of the last attempt: raise
gemini_give_up ==
  /\ fn = "_get_gemini_response" /\ pc = "except"
  /\ ~(locals["attempt"] < args.max_retries - 1)
  /\ ret' = <<[raised |-> "Gemini API failed"]>>
  /\ pc' = "done"
  /\ UNCHANGED <<fn, args, locals, files>>

\* range(max_retries) is exhausted without a return or a raise: the function
\* ends and returns None
gemini_loop_ends ==
  /\ fn = "_get_gemini_response" /\ pc = "attempt"
  /\ ~(locals["attempt"] < args.max_retries)
  /\ ret' = <<[returned |-> None]>>
  /\ pc' = "done"
  /\ UNCHANGED <<fn, args, locals, files>>

InitEngines ==
  /\ \/ /\ fn = "_transcribe_with_fallback"
        /\ args \in FallbackInputs
        /\ pc = "loop"
        /\ locals = ("i" :> 1) @@ ("tried" :> <<>>)
     \/ /\ fn = "_get_gemini_response"
        /\ args \in GeminiInputs
        /\ pc = "attempt"
        /\ locals = ("attempt" :> 0) @@ ("calls" :> 0) @@ ("sleeps" :> <<>>)
  /\ ret = <<>>
  /\ files = EmptyDict

NextEngines ==
  \/ fallback_try
  \/ fallback_exhausted
  \/ gemini_attempt
  \/ gemini_backoff
  \/ gemini_give_up
  \/ gemini_loop_ends

SpecEngines == InitEngines /\ [][NextEngines]_vars

(***************************************************************************)

(* The batch_analyze endpoints of the three services.  Here                *)
(*   fn     : "audio_batch_analyze", "facial_batch_analyze" or             *)
(*            "text_batch_analyze"                                         *)
(*   args   : the first check the request fails ("ok" when none) and its   *)
(*            items; an item tells what happens to it: "invalid" (the file *)
(*            check or the text validation rejects it), "ok",              *)
(*            "undecodable" (no audio or no frame can be read from the     *)
(*            saved file), "raises" (an exception after the save, or in    *)
(*            the analysis of a text)                                      *)
(*   pc     : "received", "loop", "done"                                   *)
(*   locals : results and the index i of the next item                     *)
(*   ret    : <<>> before, <<response>> after the handler has returned     *)
(*   files  : the upload folder: the saved uploads not removed so far,     *)
(*            under the index of their item                                *)
(***************************************************************************)
\* "for file in files[:3]" of the audio service
audio_batch_limit == 3

\* "for file in files[:5]" of the facial service
facial_batch_limit == 5

\* text CONFIG['BATCH_SIZE']
BATCH_SIZE == 5

\* how many items more than the limit a request holds at most
MaxExtra == 1

BatchLimits ==
  [audio_batch_analyze |-> audio_batch_limit,
   facial_batch_analyze |-> facial_batch_limit,
   text_batch_analyze |-> BATCH_SIZE]

\* the key that marks a successful entry and the value an item gets under it
BatchSuccessKey ==
  [audio_batch_analyze |-> "transcription",
   facial_batch_analyze |-> "confidence",
   text_batch_analyze |-> "quality_score"]

FileItems == {"invalid", "ok", "undecodable", "raises"}

TextItems == {"invalid", "ok", "raises"}

FileBatches(h) ==
  UNION {{<<h, [check |-> "ok", items |-> f]>> : f \in [1..n -> FileItems]} :
           n \in 1..(BatchLimits[h] + MaxExtra)}

BatchRequests ==
  {<<h, [check |-> c, items |-> <<>>]>> :
     h \in {"audio_batch_analyze", "facial_batch_analyze"}, c \in {"no_files", "empty_files"}}
    \cup {<<"text_batch_analyze", [check |-> c, items |-> <<>>]>> :
            c \in {"no_texts", "invalid_format"}}
    \cup FileBatches("audio_batch_analyze")
    \cup FileBatches("facial_batch_analyze")
    \cup UNION {{<<"text_batch_analyze", [check |-> "ok", items |-> t]>> :
                   t \in [1..n -> TextItems]} : n \in 0..(BATCH_SIZE + MaxExtra)}

InitBatch ==
  /\ \E r \in BatchRequests : fn = r[1] /\ args = r[2]
  /\ pc = "received"
  /\ locals = EmptyDict
  /\ ret = <<>>
  /\ files = EmptyDict

\* the entry of an item that was analysed
batch_success_entry(handler, i) ==
  ("filename" :> i) @@ (BatchSuccessKey[handler] :> "value") @@ ("passed" :> TRUE)

\* a faulty variant: the except branch records nothing
batch_error_entry_dropped(results, i, error) == results

\* results.append({'filename': file.filename, 'error': ...})
batch_error_entry(results, i, error) ==
  Append(results, ("filename" :> i) @@ ("error" :> error))

\* the entries that count as successful analyses
successful_analyses(handler, results) ==
  Len(SelectSeq(results, LAMBDA r : BatchSuccessKey[handler] \in DOMAIN r))

\* the checks before the loop
batch_validate(handler) ==
  /\ fn = handler /\ pc = "received"
  /\ IF args.check # "ok"
       THEN /\ ret' = <<error_response(args.check, 400)>>
            /\ pc' = "done"
            /\ locals' = locals
       ELSE IF handler = "text_batch_analyze" /\ Len(args.items) > BATCH_SIZE
         THEN /\ ret' = <<error_response("batch_too_large", 400)>>
              /\ pc' = "done"
              /\ locals' = locals
         ELSE /\ ret' = ret
              /\ pc' = "loop"
              /\ locals' = ("results" :> <<>>) @@ ("i" :> 1)
  /\ UNCHANGED <<fn, args, files>>

\* the items the loop goes through: files[:3], files[:5], texts
batch_length(handler) ==
  IF handler = "text_batch_analyze" THEN Len(args.items)
  ELSE IF Len(args.items) < BatchLimits[handler] THEN Len(args.items)
  ELSE BatchLimits[handler]

\* the loop body on one uploaded file: a file that fails the file check is
\* passed over; else the file is saved, and analysed and removed, or found
\* undecodable and removed, or an exception leaves the try block before
\* os.remove(file_path)
batch_file(handler) ==
  /\ fn = handler /\ pc = "loop"
  /\ locals["i"] <= batch_length(handler)
  /\ CASE args.items[locals["i"]] = "invalid" ->
            /\ locals' = [locals EXCEPT !["i"] = @ + 1]
            /\ files' = files
       [] args.items[locals["i"]] = "ok" ->
            /\ locals' = [locals EXCEPT
                            !["results"] = Append(@, batch_success_entry(handler, locals["i"])),
                            !["i"] = @ + 1]
            /\ files' = files
       [] args.items[locals["i"]] = "undecodable" ->
            /\ locals' = [locals EXCEPT
                            !["results"] = batch_error_entry(@, locals["i"],
                                                             "Could not process file"),
                            !["i"] = @ + 1]
            /\ files' = files
       [] args.items[locals["i"]] = "raises" ->
            /\ locals' = [locals EXCEPT
                            !["results"] = batch_error_entry(@, locals["i"], "str(e)"),
                            !["i"] = @ + 1]
            /\ files' = (locals["i"] :> "saved") @@ files
  /\ UNCHANGED <<fn, args, pc, ret>>

\* the loop body on one text
batch_text ==
  /\ fn = "text_batch_analyze" /\ pc = "loop"
  /\ locals["i"] <= batch_length("text_batch_analyze")
  /\ locals' =
       [locals EXCEPT
          !["results"] =
             CASE args.items[locals["i"]] = "ok" ->
                    Append(@, ("index" :> locals["i"] - 1) @@ ("success" :> TRUE)
                                @@ ("quality_score" :> "value") @@ ("passed" :> TRUE))
               [] args.items[locals["i"]] = "invalid" ->
                    Append(@, ("index" :> locals["i"] - 1) @@ ("success" :> FALSE)
                                @@ ("error" :> "error_msg"))
               [] args.items[locals["i"]] = "raises" ->
                    Append(@, ("index" :> locals["i"] - 1) @@ ("success" :> FALSE)
                                @@ ("error" :> "str(e)")),
          !["i"] = @ + 1]
  /\ UNCHANGED <<fn, args, pc, ret, files>>

\* the response after the loop
batch_respond(handler, total) ==
  /\ fn = handler /\ pc = "loop"
  /\ locals["i"] > batch_length(handler)
  /\ ret' = <<[success |-> TRUE,
               results |-> locals["results"],
               total |-> total,
               successful_analyses |-> successful_analyses(handler, locals["results"])]>>
  /\ pc' = "done"
  /\ UNCHANGED <<fn, args, locals, files>>

audio_batch_analyze_validate == batch_validate("audio_batch_analyze")

audio_batch_analyze_file == batch_file("audio_batch_analyze")

\* 'total_files': len(results)
audio_batch_analyze_respond ==
  /\ fn = "audio_batch_analyze" /\ pc = "loop"
  /\ batch_respond("audio_batch_analyze", Len(locals["results"]))

facial_batch_analyze_validate == batch_validate("facial_batch_analyze")

facial_batch_analyze_file == batch_file("facial_batch_analyze")

facial_batch_analyze_respond ==
  /\ fn = "facial_batch_analyze" /\ pc = "loop"
  /\ batch_respond("facial_batch_analyze", Len(locals["results"]))

text_batch_analyze_validate == batch_validate("text_batch_analyze")

text_batch_analyze_text == batch_text

\* 'total_texts': len(texts)
text_batch_analyze_respond ==
  /\ fn = "text_batch_analyze" /\ pc = "loop"
  /\ batch_respond("text_batch_analyze", Len(args.items))

NextBatch ==
  \/ audio_batch_analyze_validate
  \/ audio_batch_analyze_file
  \/ audio_batch_analyze_respond
  \/ facial_batch_analyze_validate
  \/ facial_batch_analyze_file
  \/ facial_batch_analyze_respond
  \/ text_batch_analyze_validate
  \/ text_batch_analyze_text
  \/ text_batch_analyze_respond

SpecBatch == InitBatch /\ [][NextBatch]_vars

(***************************************************************************)

(* Calls of an aggregator on a mapping and on the same mapping with one    *)
(* sub-score raised.  Here                                                 *)
(*   fn   : the aggregator                                                 *)
(*   args : <<mapping, name, value>>: the value is above the one the       *)
(*          mapping holds under the name; for the second-order combination *)
(*          <<reports, position of the report, name, value>>               *)
(*   ret  : <<>> before, <<aggregate, aggregate with the score raised>>    *)
(*          after the two calls                                            *)
(***************************************************************************)
\* the mapping with the value under name replaced
Raised(metrics, name, v) == [metrics EXCEPT ![name] = v]

\* a mapping, one of its names and a value above the one it holds
Raises_of(mappings) ==
  UNION {UNION {{<<m, n, v>> : v \in {x \in ScoreValues : FGt(x, m[n])}} : n \in DOMAIN m} :
           m \in mappings}

RaiseInputs(weights, values) == Raises_of(Dicts(Names(weights), values))

\* the three reports of the second-order combination, the position of one
\* of them, and a raise of its score
SecondOrderRaises ==
  UNION {UNION {{<<r, k, c[2], c[3]>> : c \in Raises_of({r[k]})} : k \in 1..3} :
           r \in Dicts({"overall_score"}, {FDec(2, 10), FDec(8, 10)})
                   \X Dicts({"overall_score"}, {FDec(2, 10), FDec(8, 10)})
                   \X Dicts({"confidence"}, {FDec(2, 10), FDec(8, 10)})}

InitRaise ==
  /\ \E c \in ({"_calculate_quality_score"} \X RaiseInputs(audio_quality_weights, {FDec(2, 10), FDec(8, 10)}))
              \cup ({"text_calculate_overall_quality"} \X RaiseInputs(text_quality_weights, {FDec(8, 10)}))
              \cup ({"audio_calculate_overall_quality"} \X SecondOrderRaises) :
        fn = c[1] /\ args = c[2]
  /\ pc = "call"
  /\ locals = EmptyDict
  /\ ret = <<>>
  /\ files = <<>>

\* the aggregator applied to the mapping, and to the mapping with the score
\* raised
Raise_calculate_quality_score ==
  /\ fn = "_calculate_quality_score" /\ ret = <<>>
  /\ ret' = <<_calculate_quality_score(args[1]),
              _calculate_quality_score(Raised(args[1], args[2], args[3]))>>
  /\ UNCHANGED <<fn, args, pc, locals, files>>

Raise_text_calculate_overall_quality ==
  /\ fn = "text_calculate_overall_quality" /\ ret = <<>>
  /\ ret' = <<text_calculate_overall_quality(args[1]),
              text_calculate_overall_quality(Raised(args[1], args[2], args[3]))>>
  /\ UNCHANGED <<fn, args, pc, locals, files>>

Raise_audio_calculate_overall_quality ==
  /\ fn = "audio_calculate_overall_quality" /\ ret = <<>>
  /\ LET r  == args[1]
         rr == [r EXCEPT ![args[2]] = Raised(r[args[2]], args[3], args[4])]
     IN  ret' = <<audio_calculate_overall_quality(r[1], r[2], r[3]),
                  audio_calculate_overall_quality(rr[1], rr[2], rr[3])>>
  /\ UNCHANGED <<fn, args, pc, locals, files>>

NextRaise ==
  \/ Raise_calculate_quality_score
  \/ Raise_text_calculate_overall_quality
  \/ Raise_audio_calculate_overall_quality

SpecRaise == InitRaise /\ [][NextRaise]_vars

(***************************************************************************)

(* A worker process that serves calls of the scoring functions one after   *)
(* another.  Here                                                          *)
(*   fn     : "process"                                                    *)
(*   args   : the last call <<function, input>>                            *)
(*   locals : the module-level CONFIG the gate reads                       *)
(*   ret    : the log of the calls served: [f, x, y] for y = f(x)          *)
(***************************************************************************)
\* the longest log of calls
MaxCalls == 3

\* CONFIG of the audio service, as far as the gate reads it
ProcessConfig == ("QUALITY_THRESHOLD" :> audio_QUALITY_THRESHOLD)

\* a faulty variant: a served gate tightens the threshold
config_after_call_tightened(config, f) ==
  IF f = "passed" THEN ("QUALITY_THRESHOLD" :> FOne) ELSE config

\* no scoring function, classifier or gate assigns to CONFIG
config_after_call(config, f) == config

ServedMetrics ==
  {MixedMetrics, Uniform(Names(audio_quality_weights), HighScore), EmptyDict, None,
   ("noise_quality" :> None) @@ MixedMetrics, (DiagnosticKey :> FInt(-20))}

ServedAnalyses ==
  {Uniform(combined_scores_names, FDec(8, 10)),
   ("grammar_score" :> FDec(6, 10)) @@ ("clarity_score" :> FOne),
   ("grammar_score" :> None) @@ ("structure_score" :> FOne),
   EmptyDict, None}

ServedScores == {FDec(7, 10), FNextDown(FDec(7, 10)), HighScore, FInt(-1), FInt(2)}

InitCalls ==
  /\ fn = "process"
  /\ args = <<>>
  /\ pc = "idle"
  /\ locals = ProcessConfig
  /\ ret = <<>>
  /\ files = EmptyDict

\* the process serves the call f(x) with the result y
serve(f, x, y) ==
  /\ fn = "process" /\ Len(ret) < MaxCalls
  /\ args' = <<f, x>>
  /\ ret' = Append(ret, [f |-> f, x |-> x, y |-> y])
  /\ locals' = config_after_call(locals, f)
  /\ UNCHANGED <<fn, pc, files>>

Serve_calculate_quality_score ==
  \E metrics \in ServedMetrics :
    serve("_calculate_quality_score", metrics, _calculate_quality_score(metrics))

Serve_text_calculate_overall_quality ==
  \E analysis \in ServedAnalyses :
    serve("calculate_overall_quality", analysis, text_calculate_overall_quality(analysis))

Serve_calculate_clarity_score ==
  \E analysis \in ServedAnalyses :
    serve("_calculate_clarity_score", analysis, _calculate_clarity_score(analysis))

Serve_get_quality_level ==
  \E score \in ServedScores : serve("_get_quality_level", score, _get_quality_level(score))

Serve_passed ==
  \E overall \in ServedScores :
    serve("passed", overall, Passed(overall, locals["QUALITY_THRESHOLD"]))

NextCalls ==
  \/ Serve_calculate_quality_score
  \/ Serve_text_calculate_overall_quality
  \/ Serve_calculate_clarity_score
  \/ Serve_get_quality_level
  \/ Serve_passed

SpecCalls == InitCalls /\ [][NextCalls]_vars

(***************************************************************************)
(* Exact arithmetic on non-negative dyadic numbers m * 2^e, the reference  *)
(* the properties below compare the computed doubles with.                 *)
(***************************************************************************)
DZero == [m |-> <<>>, e |-> 0]

\* the exact value of the non-negative double x
DVal(x) == [m |-> x.m, e |-> x.e]

DMul(a, b) ==
  IF a.m = <<>> \/ b.m = <<>> THEN DZero ELSE [m |-> BMul(a.m, b.m), e |-> a.e + b.e]

DMinE(a, b) ==
  IF a.m = <<>> THEN b.e
  ELSE IF b.m = <<>> THEN a.e
  ELSE IF a.e < b.e THEN a.e ELSE b.e

\* the mantissa of a at the exponent e <= a.e
DAt(a, e) == IF a.m = <<>> THEN <<>> ELSE BShl(a.m, a.e - e)

DAdd(a, b) ==
  LET e == DMinE(a, b) IN [m |-> BAdd(DAt(a, e), DAt(b, e)), e |-> e]

\* -1, 0, 1 as a < b, a = b, a > b
DCmp(a, b) ==
  LET e == DMinE(a, b) IN BCmp(DAt(a, e), DAt(b, e))

\* |a - b|
DDist(a, b) ==
  LET e == DMinE(a, b)
      x == DAt(a, e)
      y == DAt(b, e)
  IN  [m |-> IF BCmp(x, y) >= 0 THEN BSub(x, y) ELSE BSub(y, x), e |-> e]

\* a * 2^k
DScale(a, k) == IF a.m = <<>> THEN a ELSE [a EXCEPT !.e = a.e + k]

\* |r * den - num| <= den * 2^-k, i.e. r = num / den to k bits
DQuotientTo(r, num, den, k) ==
  DCmp(DDist(DMul(DVal(r), den), num), DScale(den, -k)) <= 0

\* r = num / den up to the rounding of a loop over at most five names: two
\* roundings per name and one for the division, each of relative size 2^-53
DQuotientIs(r, num, den) == DQuotientTo(r, num, den, 49)

\* the exact sums of weight * score and of weight over the names of the table
\* that the mapping carries, from item i on
RECURSIVE ExactSums(_, _, _)
ExactSums(metrics, weights, i) ==
  IF i > Len(weights) THEN [num |-> DZero, den |-> DZero, n |-> 0, sum |-> DZero]
  ELSE LET rest == ExactSums(metrics, weights, i + 1)
           name == weights[i][1]
       IN  IF name \in DOMAIN metrics
             THEN [num |-> DAdd(DMul(DVal(weights[i][2]), DVal(metrics[name])), rest.num),
                   den |-> DAdd(DVal(weights[i][2]), rest.den),
                   n   |-> rest.n + 1,
                   sum |-> DAdd(DVal(metrics[name]), rest.sum)]
             ELSE rest

FirstOrder ==
  {"_calculate_quality_score", "_calculate_speech_score", "text_calculate_overall_quality"}

Returned == ret # <<>>

\* C1: each first-order aggregator returns sum(weight * score) / sum(weight)
\* over exactly the names that are both in the mapping and in its weight table
\* (up to the rounding of the double arithmetic) whenever some such name
\* exists; for the equal speech weights that is the arithmetic mean of the
\* present scores.
C1_WeightedMeanOverPresentNames ==
  (fn \in FirstOrder /\ Returned /\ Names(Aggregators[fn]) \cap DOMAIN args[1] # {}) =>
    LET s == ExactSums(args[1], Aggregators[fn], 1)
    IN  /\ ~ret[1].neg
        /\ DQuotientIs(ret[1], s.num, s.den)
        /\ fn = "_calculate_speech_score" =>
             DQuotientIs(ret[1], s.sum, [m |-> BNat(s.n), e |-> 0])

\* a call with two of the five audio-quality names present, scored differently,
\* next to a diagnostic entry, has returned
C1_Witness ==
  /\ fn = "_calculate_quality_score" /\ Returned
  /\ DOMAIN args[1] = {"volume_quality", "noise_quality", DiagnosticKey}
  /\ args[1]["volume_quality"] = FDec(2, 10)
  /\ args[1]["noise_quality"] = FDec(8, 10)

DOne == [m |-> <<1>>, e |-> 0]

\* C2: whatever mapping with scores in [0,1] it is given, every aggregator,
\* the unclipped _calculate_clarity_score included, returns a value in [0,1].
C2_AggregateInUnitInterval ==
  (fn \in DOMAIN Aggregators /\ Returned) =>
    /\ ~ret[1].neg
    /\ DCmp(DVal(ret[1]), DOne) <= 0

\* the unclipped clarity aggregator has returned the upper end of the range
\* for three scores of 1.0
C2_Witness ==
  /\ fn = "_calculate_clarity_score" /\ Returned
  /\ DOMAIN args[1] = Names(clarity_weights)
  /\ \A n \in DOMAIN args[1] : args[1][n] = FOne
  /\ ret[1] = FOne

\* the double 0.5
Half == [neg |-> FALSE, m |-> BShl(<<1>>, 52), e |-> -53]

\* C3: a mapping that is empty, or carries no name of the weight table, makes
\* the aggregator return exactly 0.5.
C3_NeutralWithoutWeightedName ==
  (fn \in DOMAIN Aggregators /\ Returned
     /\ Names(Aggregators[fn]) \cap DOMAIN args[1] = {}) =>
    ret[1] = Half

\* a non-empty mapping that carries only a diagnostic entry has been aggregated
C3_Witness ==
  /\ fn = "_calculate_quality_score" /\ Returned
  /\ DOMAIN args[1] = {DiagnosticKey}
  /\ ret[1] = Half

\* the names each aggregator's loop reads, as its source lists them
WeightedNames ==
  [_calculate_quality_score |->
     {"volume_quality", "noise_quality", "frequency_quality", "silence_quality",
      "distortion_quality"},
   _calculate_speech_score |->
     {"rate_quality", "pitch_quality", "articulation_quality", "fluency_quality"},
   text_calculate_overall_quality |->
     {"grammar_score", "clarity_score", "relevance_score", "completeness_score",
      "professionalism_score"},
   _calculate_clarity_score |->
     {"grammar_score", "readability_score", "structure_score"}]

Restrict(d, names) == [k \in DOMAIN d \cap names |-> d[k]]

Aggregate(f, m) ==
  CASE f = "_calculate_quality_score" -> _calculate_quality_score(m)
    [] f = "_calculate_speech_score" -> _calculate_speech_score(m)
    [] f = "text_calculate_overall_quality" -> text_calculate_overall_quality(m)
    [] f = "_calculate_clarity_score" -> _calculate_clarity_score(m)

\* C4: the aggregate of a mapping is the aggregate of its restriction to the
\* weighted names, so two mappings that agree on the weighted names have the
\* same aggregate whatever other entries they carry.
C4_UnweightedEntriesIgnored ==
  (fn \in DOMAIN Aggregators /\ Returned) =>
    ret[1] = Aggregate(fn, Restrict(args[1], WeightedNames[fn]))

\* a mapping with weighted scores and the diagnostic rms_db = -20 has been
\* aggregated
C4_Witness ==
  /\ fn = "_calculate_quality_score" /\ Returned
  /\ DiagnosticKey \in DOMAIN args[1]
  /\ args[1][DiagnosticKey] = FInt(-20)
  /\ {"volume_quality", "distortion_quality"} \subseteq DOMAIN args[1]

\* the weighted names the mapping of the call carries
Present == Names(Aggregators[fn]) \cap DOMAIN args[1]

\* the weight the table gives the name n
WeightOf(weights, n) == (CHOOSE i \in 1..Len(weights) : weights[i][1] = n)

\* the table with every weight multiplied by c
Scaled(weights, c) ==
  [i \in 1..Len(weights) |-> <<weights[i][1], FMul(c, weights[i][2])>>]

\* the call's aggregate recomputed with every weight multiplied by c
Rescaled(c) ==
  LET x == Normalize(WeightedLoop(args[1], Scaled(Aggregators[fn], c)))
  IN  IF fn = "_calculate_clarity_score" THEN x ELSE Clip(x)

\* the factors the weights are multiplied by
ScaleFactors == {FInt(2), FInt(5)}

\* the statement as the specification words it: the aggregate does not change
\* at all when every weight is multiplied by the same positive constant, and a
\* single present sub-score comes back exactly.
C5_ExactScaleInvariance ==
  (fn \in DOMAIN Aggregators /\ Returned) =>
    /\ \A c \in ScaleFactors : Rescaled(c) = ret[1]
    /\ \A n \in Present : Present = {n} => ret[1] = args[1][n]

\* C5 (as the code has it): multiplying every weight by the same positive
\* constant changes the aggregate by rounding only, and not at all when the
\* constant is 2; a single present sub-score s comes back to within a
\* relative 2^-51, and exactly when its weight is a power of two or s is 1.0.
C5_ScaleInvarianceUpToRounding ==
  (fn \in DOMAIN Aggregators /\ Returned /\ Present # {}) =>
    LET s == ExactSums(args[1], Aggregators[fn], 1)
    IN  /\ \A c \in ScaleFactors :
             LET r == Rescaled(c)
             IN  /\ ~r.neg
                 /\ DQuotientTo(r, s.num, s.den, 48)
                 /\ c = FInt(2) => r = ret[1]
        /\ \A n \in Present : Present = {n} =>
             LET w == Aggregators[fn][WeightOf(Aggregators[fn], n)][2]
             IN  /\ DQuotientTo(ret[1], DVal(args[1][n]), DOne, 51)
                 /\ (w.m = BShl(<<1>>, Precision - 1) \/ args[1][n] = FOne) =>
                      ret[1] = args[1][n]

\* frequency_quality = 0.8 alone, weight 0.2, has come back as the next
\* double above 0.8
C5_Witness ==
  /\ fn = "_calculate_quality_score" /\ Returned
  /\ DOMAIN args[1] = {"frequency_quality"}
  /\ args[1]["frequency_quality"] = FDec(8, 10)
  /\ ret[1] = FNextUp(FDec(8, 10))

\* the level of a score by the number of breakpoints at or below it
Levels == <<"Very Poor", "Poor", "Fair", "Good", "Excellent">>

Band(x) == Cardinality({b \in Breakpoints : DCmp(DVal(b), DVal(x)) <= 0})

\* C6: every classifier gives a score the level of the highest breakpoint
\* (0.4 Poor, 0.6 Fair, 0.8 Good, 0.9 Excellent) at or below it, the lowest
\* level when there is none, so a score on a breakpoint gets the higher band;
\* the audio, speech and text classifiers agree on the score.
C6_LowerClosedBands ==
  (fn \in Classifiers /\ Returned) =>
    /\ ret[1] = Levels[Band(args[1]) + 1]
    /\ _get_quality_level(args[1]) = ret[1]
    /\ _get_speech_level(args[1]) = ret[1]
    /\ get_quality_level(args[1]) = ret[1]

\* the speech classifier has put the breakpoint 0.8 in the band above it
C6_Witness ==
  /\ fn = "_get_speech_level" /\ Returned
  /\ args[1] = FDec(8, 10)
  /\ ret[1] = "Good"

(***************************************************************************)
(* Requests that have been answered.                                       *)
(***************************************************************************)
Succeeded == Returned /\ ret[1].success

\* the pass threshold of the service of the request
ServiceThreshold ==
  CASE fn \in {"audio_analyze", "quality_check"} -> FDec(7, 10)
    [] fn = "text_analyze" -> FDec(8, 10)
    [] fn = "facial_analyze" -> FDec(8, 10)

\* the overall score the handler computed
ComputedOverall ==
  IF fn = "facial_analyze"
    THEN FDiv(locals["total_confidence"], FInt(locals["valid_detections"]))
    ELSE locals["overall_quality"]

\* the overall score the response shows
ReportedOverall ==
  IF fn = "facial_analyze" THEN ret[1].overall_confidence ELSE ret[1].overall_quality

\* C7: in every service the response's passed is true exactly when the overall
\* score the handler computed is at or above the service's threshold (0.7
\* audio, 0.8 facial, 0.8 text); a score equal to the threshold passes.
C7_PassedIffAtLeastThreshold ==
  Succeeded =>
    (ret[1].passed <=> DCmp(DVal(ComputedOverall), DVal(ServiceThreshold)) >= 0)

\* an audio request whose overall quality is the threshold 0.7 itself has
\* passed
C7_Witness ==
  /\ fn = "audio_analyze" /\ Succeeded
  /\ locals["overall_quality"] = FDec(7, 10)
  /\ ret[1].passed

\* C8 (as stated): when transcribe_audio fails in the audio /analyze, the
\* overall quality is the mean of the audio-quality and speech-quality scores
\* weighted 0.3 and 0.4 and renormalised over those two weights.
C8_FailedTranscriptionReweighted ==
  (fn = "audio_analyze" /\ Succeeded /\ args.stt.raised) =>
    DQuotientTo(locals["overall_quality"],
                DAdd(DMul(DVal(FDec(3, 10)), DVal(locals["quality_analysis"]["overall_score"])),
                     DMul(DVal(FDec(4, 10)), DVal(locals["speech_analysis"]["overall_score"]))),
                DAdd(DVal(FDec(3, 10)), DVal(FDec(4, 10))),
                49)

SecondOrder == {"audio_calculate_overall_quality", "quality_check_overall"}

\* the entries a second-order combination reads: <<weight, mapping, key>>
SecondOrderTerms ==
  IF fn = "audio_calculate_overall_quality"
    THEN <<<<FDec(3, 10), args[1], "overall_score">>,
           <<FDec(4, 10), args[2], "overall_score">>,
           <<FDec(3, 10), args[3], "confidence">>>>
    ELSE <<<<Half, args[1], "overall_score">>, <<Half, args[2], "overall_score">>>>

\* the exact sums of weight * entry and of weight over the entries present
RECURSIVE PresentSums(_, _)
PresentSums(terms, i) ==
  IF i > Len(terms) THEN [num |-> DZero, den |-> DZero]
  ELSE LET rest == PresentSums(terms, i + 1)
           t == terms[i]
       IN  IF t[3] \in DOMAIN t[2]
             THEN [num |-> DAdd(DMul(DVal(t[1]), DVal(t[2][t[3]])), rest.num),
                   den |-> DAdd(DVal(t[1]), rest.den)]
             ELSE rest

\* the exact sum of weight * entry over all entries, an absent one read as 0.5
RECURSIVE FixedSum(_, _)
FixedSum(terms, i) ==
  IF i > Len(terms) THEN DZero
  ELSE LET t == terms[i]
       IN  DAdd(DMul(DVal(t[1]), DVal(IF t[3] \in DOMAIN t[2] THEN t[2][t[3]] ELSE Half)),
                FixedSum(terms, i + 1))

Assembled(report, metrics, score, level_key, level) ==
  /\ DOMAIN report = DOMAIN metrics \cup {"overall_score", level_key}
  /\ \A n \in DOMAIN metrics : report[n] = metrics[n]
  /\ report["overall_score"] = score
  /\ report[level_key] = level

QualityAssembled(report, metrics) ==
  Assembled(report, metrics, _calculate_quality_score(metrics), "quality_level",
            _get_quality_level(_calculate_quality_score(metrics)))

SpeechAssembled(report, metrics) ==
  Assembled(report, metrics, _calculate_speech_score(metrics), "speech_level",
            _get_speech_level(_calculate_speech_score(metrics)))

\* the report of a builder that raised: the neutral score and the error, no
\* level
FailureReport(report) ==
  /\ DOMAIN report = {"overall_score", "error"}
  /\ report["overall_score"] = Half

AudioEndpoints == {"audio_analyze", "quality_check"}

\* C10 (as stated): a report whose builder did not raise holds every measured
\* sub-score under its name and value, its overall_score is the aggregator's
\* output, its level is the classifier's output for it, and the response
\* shows that same overall score and the gate's verdict on it.
C10_ReportIsPureAssembly ==
  /\ (fn \in AudioEndpoints /\ "quality_analysis" \in DOMAIN locals /\ ~args.quality.raised) =>
       QualityAssembled(locals["quality_analysis"], args.quality.metrics)
  /\ (fn \in AudioEndpoints /\ "speech_analysis" \in DOMAIN locals /\ ~args.speech.raised) =>
       SpeechAssembled(locals["speech_analysis"], args.speech.metrics)
  /\ Succeeded =>
       /\ ReportedOverall = ComputedOverall
       /\ ret[1].passed <=> DCmp(DVal(ReportedOverall), DVal(ServiceThreshold)) >= 0
       /\ fn = "text_analyze" =>
            ret[1].quality_level = get_quality_level(ReportedOverall)

\* C10 (amended): a first-order report that did not raise holds every measured
\* entry under its name and value, the aggregator's output as overall_score
\* and the classifier's level of it; one that raised holds the score 0.5 and
\* the error only.  A response carries the reports unchanged, shows the
\* overall score rounded to four decimals, and takes passed (and the text
\* quality_level) from the unrounded score; the text combined_scores list the
\* five weighted names of the combined analysis, 0.5 for an absent one.
C10_AssemblyWithRounding ==
  /\ (fn \in AudioEndpoints /\ "quality_analysis" \in DOMAIN locals) =>
       IF args.quality.raised THEN FailureReport(locals["quality_analysis"])
       ELSE QualityAssembled(locals["quality_analysis"], args.quality.metrics)
  /\ (fn \in AudioEndpoints /\ "speech_analysis" \in DOMAIN locals) =>
       IF args.speech.raised THEN FailureReport(locals["speech_analysis"])
       ELSE SpeechAssembled(locals["speech_analysis"], args.speech.metrics)
  /\ Succeeded =>
       /\ ReportedOverall = PyRound(ComputedOverall)
       /\ DCmp(DDist(DVal(ReportedOverall), DVal(ComputedOverall)), DScale(DOne, -14)) < 0
       /\ ret[1].passed <=> DCmp(DVal(ComputedOverall), DVal(ServiceThreshold)) >= 0
       /\ fn \in AudioEndpoints =>
            /\ ret[1].audio_quality = locals["quality_analysis"]
            /\ ret[1].speech_analysis = locals["speech_analysis"]
       /\ fn = "text_analyze" =>
            /\ ret[1].text_metrics = locals["text_metrics"]
            /\ ret[1].quality_level = get_quality_level(ComputedOverall)
            /\ DOMAIN ret[1].combined_scores = combined_scores_names
            /\ \A n \in combined_scores_names :
                 ret[1].combined_scores[n] =
                   IF n \in DOMAIN locals["combined_analysis"]
                     THEN locals["combined_analysis"][n] ELSE Half

\* an audio response carrying a quality report with its diagnostic entry shows
\* an overall quality that the rounding has changed
C10_Witness ==
  /\ fn = "audio_analyze" /\ Succeeded
  /\ ~args.quality.raised
  /\ DiagnosticKey \in DOMAIN ret[1].audio_quality
  /\ ReportedOverall # ComputedOverall

LevelNames == {"Excellent", "Good", "Fair", "Poor", "Very Poor"}

HasScoreLevelVerdict(report) ==
  /\ {"overall_score", "quality_level", "passed"} \subseteq DOMAIN report
  /\ report["quality_level"] \in LevelNames \cup {"VeryPoor"}
  /\ report["passed"] \in BOOLEAN

QualityReported ==
  fn \in AudioEndpoints /\ "quality_analysis" \in DOMAIN locals /\ ~args.quality.raised

SpeechReported ==
  fn \in AudioEndpoints /\ "speech_analysis" \in DOMAIN locals /\ ~args.speech.raised

\* C11 (as stated): every first-order report whose builder did not raise and
\* every success response holds an overall_score, a quality_level that is one
\* of the five levels, and a boolean passed.
C11_ReportsCarryScoreLevelVerdict ==
  /\ QualityReported => HasScoreLevelVerdict(locals["quality_analysis"])
  /\ SpeechReported => HasScoreLevelVerdict(locals["speech_analysis"])
  /\ Succeeded => HasScoreLevelVerdict(ret[1])

\* C11 (amended): the audio-quality report holds overall_score and
\* quality_level, the speech report holds overall_score and speech_level
\* (no quality_level), each level one of Excellent, Good, Fair, Poor,
\* "Very Poor", and neither holds passed.  A success response holds a boolean
\* passed and no overall_score: its score is overall_quality (audio, text) or
\* overall_confidence (facial); only the text response holds a quality_level.
C11_ReportFields ==
  /\ QualityReported =>
       /\ {"overall_score", "quality_level"} \subseteq DOMAIN locals["quality_analysis"]
       /\ locals["quality_analysis"]["quality_level"] \in LevelNames
       /\ "passed" \notin DOMAIN locals["quality_analysis"]
  /\ SpeechReported =>
       /\ {"overall_score", "speech_level"} \subseteq DOMAIN locals["speech_analysis"]
       /\ locals["speech_analysis"]["speech_level"] \in LevelNames
       /\ "quality_level" \notin DOMAIN locals["speech_analysis"]
       /\ "passed" \notin DOMAIN locals["speech_analysis"]
  /\ Succeeded =>
       /\ "passed" \in DOMAIN ret[1] /\ ret[1].passed \in BOOLEAN
       /\ "overall_score" \notin DOMAIN ret[1]
       /\ (IF fn = "facial_analyze" THEN "overall_confidence" ELSE "overall_quality")
            \in DOMAIN ret[1]
       /\ "quality_level" \in DOMAIN ret[1] <=> fn = "text_analyze"
       /\ fn = "text_analyze" => ret[1].quality_level \in LevelNames

\* an audio response carries a quality report of level Fair and a speech
\* report of level Excellent
C11_Witness ==
  /\ fn = "audio_analyze" /\ Succeeded
  /\ ~args.quality.raised /\ ~args.speech.raised
  /\ ret[1].audio_quality["quality_level"] = "Fair"
  /\ ret[1].speech_analysis["speech_level"] = "Excellent"

\* the quality report of the recording with the mixed scores has been built
MixedReported == QualityReported /\ args.quality.metrics = MixedMetrics

\* |x - d| <= t
Near(x, d, t) == DCmp(DDist(DVal(x), DVal(d)), DVal(t)) <= 0

\* C12 (as stated): the sub-scores volume 0.9, noise 0.4, frequency 0.7,
\* silence 1.0, distortion 0.8 under the audio weights give an overall_score
\* of about 0.705 (to within 0.005), the level Fair, and a pass at 0.7.
C12_MixedScoresGive0705 ==
  MixedReported =>
    /\ Near(locals["quality_analysis"]["overall_score"], FDec(705, 1000), FDec(5, 1000))
    /\ locals["quality_analysis"]["quality_level"] = "Fair"
    /\ DCmp(DVal(locals["quality_analysis"]["overall_score"]), DVal(FDec(7, 10))) >= 0

\* C12 (amended): those sub-scores give an overall_score of 0.715 (to within
\* 10^-9; the double is 0.7150000000000001), the level Fair, and a pass at
\* the threshold 0.7.
C12_MixedScoresGive0715 ==
  MixedReported =>
    /\ Near(locals["quality_analysis"]["overall_score"], FDec(715, 1000), FDec(1, 10^9))
    /\ locals["quality_analysis"]["quality_level"] = "Fair"
    /\ DCmp(DVal(locals["quality_analysis"]["overall_score"]), DVal(FDec(7, 10))) >= 0

\* /quality_check has answered the recording with the mixed scores
C12_Witness ==
  /\ fn = "quality_check" /\ Succeeded
  /\ MixedReported
  /\ ret[1].audio_quality["overall_score"] = FNextUp(FDec(715, 1000))

\* a call of an aggregator in which every weighted name present scores 0.95
AllHigh ==
  /\ fn \in DOMAIN Aggregators /\ Returned
  /\ Present # {}
  /\ \A n \in Present : args[1][n] = HighScore

AtLeast(x, threshold) == DCmp(DVal(x), DVal(threshold)) >= 0

\* C13 (as stated): when every sub-score is 0.95 the level of the aggregate is
\* Excellent and the aggregate passes every threshold up to 0.95 (0.7, 0.8 and
\* 0.95 itself), whichever weighted names are present.
C13_AllHighPassesUpTo095 ==
  AllHigh =>
    /\ _get_quality_level(ret[1]) = "Excellent"
    /\ \A threshold \in {FDec(7, 10), FDec(8, 10), HighScore} : AtLeast(ret[1], threshold)

\* C13 (amended): when every sub-score is 0.95 and some weighted name is
\* present, the aggregate is 0.95 up to rounding (it can fall below 0.95), its
\* level is Excellent, and it passes every threshold up to 0.9 (so the
\* configured 0.7 and 0.8).
C13_AllHighIsExcellent ==
  AllHigh =>
    /\ Near(ret[1], HighScore, FDec(1, 10^9))
    /\ _get_quality_level(ret[1]) = "Excellent"
    /\ _get_speech_level(ret[1]) = "Excellent"
    /\ get_quality_level(ret[1]) = "Excellent"
    /\ \A threshold \in {FDec(7, 10), FDec(8, 10), FDec(9, 10)} : AtLeast(ret[1], threshold)

\* the five audio-quality scores, all 0.95, have aggregated to less than 0.95
C13_Witness ==
  /\ fn = "_calculate_quality_score" /\ AllHigh
  /\ Present = Names(audio_quality_weights)
  /\ FLt(ret[1], HighScore)

OwnedScore ==
  ("_analyze_volume" :> "volume_quality") @@ ("_analyze_noise" :> "noise_quality")
    @@ ("_analyze_frequency_content" :> "frequency_quality")
    @@ ("_analyze_silence" :> "silence_quality")
    @@ ("_analyze_distortion" :> "distortion_quality")
    @@ ("_analyze_speech_rate" :> "rate_quality") @@ ("_analyze_pitch" :> "pitch_quality")
    @@ ("_analyze_articulation" :> "articulation_quality")
    @@ ("_analyze_fluency" :> "fluency_quality")
    @@ ("check_grammar" :> "overall_score") @@ ("analyze_readability" :> "overall_score")
    @@ ("_analyze_structure" :> "overall_score")
    @@ ("transcribe_audio" :> "confidence") @@ ("analyze_confidence" :> "")

\* an extractor has been called, its computation raised and it has returned
ExtractorFailed ==
  /\ pc = "extract" /\ Returned
  /\ fn \in DOMAIN OwnedScore \cup {"TextProcessor_analyze_text"}
  /\ args[1].raised

\* the sub-score a returned extractor hands on
SubScore == IF OwnedScore[fn] = "" THEN ret[1] ELSE ret[1][OwnedScore[fn]]

\* C15: an extractor whose computation failed has returned (no exception
\* reaches its caller) and its result holds the neutral sub-score 0.5 for the
\* dimension it owns; this for every audio, speech, text and facial extractor,
\* analyze_confidence and transcribe_audio included.
C15_FailedExtractorReturnsNeutral ==
  ExtractorFailed =>
    /\ fn \in DOMAIN OwnedScore
    /\ SubScore = Neutral

\* the names of the four weight tables
TableNames ==
  Names(audio_quality_weights) \cup Names(speech_weights)
    \cup Names(text_quality_weights) \cup Names(clarity_weights)

\* the sub-scores a returned extractor hands to an aggregator: the weighted
\* entries of a dictionary, the overall_score of a text sub-analysis (stored
\* as grammar_score, readability_score, structure_score), a composite score
HandedScores ==
  IF fn \in {"_calculate_completeness_score", "_calculate_formality_score"} THEN {ret[1]}
  ELSE IF fn \in {"check_grammar", "analyze_readability", "_analyze_structure"}
         THEN {ret[1].overall_score}
  ELSE IF fn = "analyze_confidence" THEN {}
  ELSE {ret[1][n] : n \in TableNames \cap DOMAIN ret[1]}

\* C16: every sub-score an extractor hands to an aggregator lies in
\* [0.0, 1.0], whatever its intermediate measurements were and whether its
\* computation returned normally or failed.
C16_SubScoresBounded ==
  (pc = "extract" /\ Returned) =>
    \A x \in HandedScores : FLe(FZero, x) /\ FLe(x, FOne)

\* articulation of a recording with much high-frequency energy: the quality
\* is cut at 1.0
C16_Witness ==
  /\ pc = "extract" /\ Returned /\ fn = "_analyze_articulation"
  /\ ~args[1].raised /\ args[1].spectral_clarity = FInt(3)
  /\ ret[1].articulation_quality = FOne

\* a signal-to-noise ratio below zero: the quality stays at the floor 0.1
C16_WitnessFloor ==
  /\ pc = "extract" /\ Returned /\ fn = "_analyze_noise"
  /\ ~args[1].raised /\ args[1].avg_snr = FInt(-200)
  /\ ret[1].noise_quality = FDec(1, 10)

\* the aggregators and classifiers a process serves
ServedAggregators ==
  [_calculate_quality_score |-> audio_quality_weights,
   calculate_overall_quality |-> text_quality_weights,
   _calculate_clarity_score |-> clarity_weights]

\* a double
IsFloat(x) == DOMAIN x = {"neg", "m", "e"}

\* a served call of an aggregator whose input is missing (None) or holds none
\* of the weighted names
NothingToAggregate(call) ==
  call.x = None \/ Names(ServedAggregators[call.f]) \cap DOMAIN call.x = {}

\* C17: every served call of an aggregator has returned a number, whatever the
\* mapping was (missing, empty, with entries that are not numbers), and 0.5
\* when the mapping is missing or holds no weighted entry; every served call of
\* the classifier has returned one of the five levels, whatever the score.
C17_AggregatorAndClassifierTotal ==
  fn = "process" =>
    \A i \in 1..Len(ret) :
      /\ ret[i].f \in DOMAIN ServedAggregators =>
           /\ IsFloat(ret[i].y)
           /\ NothingToAggregate(ret[i]) => ret[i].y = Neutral
      /\ ret[i].f = "_get_quality_level" => ret[i].y \in LevelNames

\* a missing mapping, a mapping with an entry that is not a number and a score
\* above 1.0 have been served
C17_Witness ==
  /\ fn = "process" /\ Len(ret) = 3
  /\ ret[1].f = "_calculate_quality_score" /\ ret[1].x = None /\ ret[1].y = Neutral
  /\ ret[2].f = "_calculate_quality_score"
  /\ ret[2].x = ("noise_quality" :> None) @@ MixedMetrics /\ ret[2].y = Neutral
  /\ ret[3].f = "_get_quality_level" /\ ret[3].x = FInt(2) /\ ret[3].y = "Excellent"

\* the steps of each handler in the order of its code
Lifecycle ==
  [audio_analyze |->
     <<"received", "quality", "transcribe", "speech", "cleanup", "overall", "respond", "done">>,
   quality_check |->
     <<"received", "quality", "speech", "overall", "cleanup", "respond", "done">>,
   text_analyze |->
     <<"received", "process", "gemini", "combine", "overall", "gate", "respond", "done">>,
   facial_analyze |-> <<"received", "frames", "respond", "done">>]

Rank(step) == CHOOSE i \in 1..Len(Lifecycle[fn]) : Lifecycle[fn][i] = step

\* what the extractors of a handler leave in its local variables
ExtractorResults ==
  [audio_analyze |-> {"quality_analysis", "stt_result", "speech_analysis"},
   quality_check |-> {"quality_analysis", "speech_analysis"},
   text_analyze |-> {"text_metrics", "gemini_analysis"},
   facial_analyze |-> {"analysis_results"}]

Extracted ==
  /\ ExtractorResults[fn] \subseteq DOMAIN locals
  /\ fn = "facial_analyze" => locals["i"] > Len(args.frames)

Aggregated == "overall_quality" \in DOMAIN locals

Gated == "passed" \in DOMAIN locals

Released == "file_path" \in DOMAIN locals /\ locals["file_path"] = "removed"

Accepted == fn \in DOMAIN Lifecycle /\ args.check = "ok"

\* the response with the report has been built
Reported == Returned /\ ret[1].success

C18_Order ==
  Accepted =>
    /\ Aggregated => Extracted
    /\ Released => Extracted
    /\ fn = "audio_analyze" => (Aggregated => Released)
    /\ fn = "quality_check" => (Released => Aggregated)
    /\ fn = "text_analyze" => (Reported => Gated) /\ (Gated => Aggregated)
    /\ (Reported /\ fn # "text_analyze") => Released

\* a step never leads back to an earlier step
C18_Forward == fn \in DOMAIN Lifecycle => Rank(pc') >= Rank(pc)

AnalyzeHandlers == {"audio_analyze", "text_analyze", "facial_analyze"}

\* the handler has called an extractor: a report builder of the audio
\* processor, the text processor, the face detector on a frame
ExtractorInvoked ==
  \/ fn = "audio_analyze" /\ "quality_analysis" \in DOMAIN locals
  \/ fn = "text_analyze" /\ "text_metrics" \in DOMAIN locals
  \/ fn = "facial_analyze" /\ "i" \in DOMAIN locals /\ locals["i"] > 1

\* a structured error: success false, an error code, a status 4xx
Rejected ==
  Returned /\ ~ret[1].success /\ {"error", "status"} \subseteq DOMAIN ret[1]

AloneResponse(t) ==
  analyze_audio_respond(analyze_audio_quality(args[t].recording.quality),
                        analyze_speech_characteristics(args[t].recording.speech),
                        transcribe_audio(args[t].recording.stt))

\* C20: with requests served side by side, each request decodes the upload it
\* saved itself, removes no upload of another request before that request has
\* decoded it, and gets the response it gets when it runs alone.
C20_RequestsIndependent ==
  fn = "threads" =>
    \A t \in Threads :
      /\ "audio_data" \in DOMAIN locals[t] => locals[t]["audio_data"] = t
      /\ ret[t] # <<>> => ret[t][1] = AloneResponse(t)

\* the requests whose uploads do not share a path are independent
C20_DistinctPathsIndependent ==
  fn = "threads" =>
    \A t \in Threads :
      (\A u \in Threads \ {t} : upload_path(args[u]) # upload_path(args[t])) =>
        /\ "audio_data" \in DOMAIN locals[t] => locals[t]["audio_data"] = t
        /\ ret[t] # <<>> => ret[t][1] = AloneResponse(t)

(***************************************************************************)
(* Engine fallback and Gemini retries.                                     *)
(***************************************************************************)
\* the engines that raised out of their function, among the first k called
AllRaised(k) == \A j \in 1..k : engines(engine_priority[j], args).raised

\* C21: _transcribe_with_fallback calls the engines in the priority order
\* google, sphinx, wit; what it returns is the result of the first engine that
\* does not raise, tagged with that engine's name, and that engine is the last
\* one called; it returns the empty transcription with confidence 0.0 and
\* engine_used 'none' only when all three engines have been called and have
\* raised.
C21_FallbackInPriorityOrder ==
  fn = "_transcribe_with_fallback" =>
    /\ Len(locals["tried"]) <= Len(engine_priority)
    /\ \A k \in 1..Len(locals["tried"]) : locals["tried"][k] = engine_priority[k]
    /\ ret # <<>> =>
         IF ret[1].returned["engine_used"] = "none"
           THEN /\ locals["tried"] = engine_priority
                /\ AllRaised(Len(engine_priority))
                /\ ret[1].returned["transcription"] = ""
                /\ ret[1].returned["confidence"] = FZero
           ELSE /\ locals["tried"] # <<>>
                /\ ret[1].returned["engine_used"] = locals["tried"][Len(locals["tried"])]
                /\ AllRaised(Len(locals["tried"]) - 1)
                /\ ~engines(ret[1].returned["engine_used"], args).raised
                /\ ret[1].returned =
                     ("engine_used" :> ret[1].returned["engine_used"])
                       @@ engines(ret[1].returned["engine_used"], args).result

\* the third engine answers after the first two have raised
C21_Witness ==
  /\ fn = "_transcribe_with_fallback"
  /\ ret # <<>>
  /\ ret[1].returned["engine_used"] = "wit"
  /\ ret[1].returned["transcription"] = "hello world"

\* the recognizer of an engine was called and reported a request error or
\* that it cannot understand the audio
RecognitionFailed(engine_name) ==
  /\ ~engines(engine_name, args).raised
  /\ args.recognizer[engine_name] \in {"UnknownValueError", "RequestError"}

\* C22: when the recognizer of an engine reports a request error or cannot
\* understand the audio, the next engine of the priority list is tried, and a
\* failed result is returned only when every engine has failed.
C22_FallbackCoversRecognitionFailures ==
  (fn = "_transcribe_with_fallback" /\ pc = "done") =>
    /\ \A k \in 1..Len(locals["tried"]) :
         (RecognitionFailed(locals["tried"][k]) /\ k < Len(engine_priority)) =>
           Len(locals["tried"]) > k
    /\ "error" \in DOMAIN ret[1].returned => locals["tried"] = engine_priority

\* the attempts that failed: the call raised or its text was empty
AttemptFailed(k) == args.api[k].raised \/ args.api[k].text = <<>>

\* C23: _get_gemini_response ends after at most max_retries calls; it returns
\* the first non-empty response and calls no more; it sleeps 2*k seconds after
\* the k-th failed attempt exactly when another attempt follows; after the
\* last failed attempt it raises; it never returns an empty or missing
\* response, whatever max_retries >= 0 is.
C23_RetriesBoundedAndNeverEmpty ==
  (fn = "_get_gemini_response" /\ pc = "done") =>
    /\ locals["calls"] <= args.max_retries
    /\ \A k \in 1..(locals["calls"] - 1) : AttemptFailed(k)
    /\ locals["sleeps"] = [k \in 1..(IF locals["calls"] = 0 THEN 0 ELSE locals["calls"] - 1) |-> 2 * k]
    /\ IF "raised" \in DOMAIN ret[1]
         THEN locals["calls"] = args.max_retries /\ AttemptFailed(locals["calls"])
         ELSE /\ ret[1].returned # None
              /\ ret[1].returned # <<>>
              /\ ~AttemptFailed(locals["calls"])

(***************************************************************************)
(* The text service without Gemini.                                        *)
(***************************************************************************)
\* the Gemini client is absent, its call raises, or its result holds 'error'
GeminiFailed(outcome) ==
  outcome = None \/ outcome = GeminiRaises \/ "error" \in DOMAIN outcome

\* C24: a text /analyze request that passes validation gets a success report
\* whatever the Gemini client does.  When the client is absent, raises or
\* returns a result with 'error', the grammar, clarity and completeness scores
\* of the report are the text processor's, professionalism_score is the
\* formality score and gemini_used is false; gemini_used is true only when the
\* scores are 0.4 text processor + 0.6 Gemini.
C24_GeminiFailureKeepsTextScores ==
  (fn = "text_analyze" /\ ret # <<>> /\ args.check = "ok") =>
    /\ ret[1].success
    /\ GeminiFailed(args.gemini) =>
         /\ ~ret[1].gemini_used
         /\ \A name \in {"grammar_score", "clarity_score", "completeness_score"}
                          \cap DOMAIN ret[1].text_metrics :
              ret[1].combined_scores[name] = ret[1].text_metrics[name]
         /\ "formality_score" \in DOMAIN ret[1].text_metrics =>
              ret[1].combined_scores["professionalism_score"]
                = ret[1].text_metrics["formality_score"]
    /\ ret[1].gemini_used =>
         /\ ~GeminiFailed(args.gemini)
         /\ \A name \in blended_scores :
              ret[1].combined_scores[name]
                = FAdd(FMul(FDec(4, 10), Get(ret[1].text_metrics, name, Neutral)),
                       FMul(FDec(6, 10), args.gemini["scores"][name]))

\* the call of the Gemini client raised and the report shows the measured
\* text scores
C24_Witness ==
  /\ fn = "text_analyze" /\ ret # <<>> /\ args.check = "ok"
  /\ args.gemini = GeminiRaises
  /\ ~args.text.raised
  /\ ret[1].success
  /\ ret[1].combined_scores["grammar_score"] = FDec(8, 10)

(***************************************************************************)
(* The facial verdict.                                                     *)
(***************************************************************************)
\* the faces of the request that count: their frame is processed without an
\* exception and their detection confidence is at least 0.7
ValidFaces ==
  SelectSeq(args.frames,
            LAMBDA frame : ~frame.raised /\ FGe(frame.detection_confidence, FDec(7, 10)))

\* the sum of the confidence scores of the first n faces, added in their order
RECURSIVE SumOfScores(_, _)
SumOfScores(faces, n) ==
  IF n = 0 THEN FZero ELSE FAdd(SumOfScores(faces, n - 1), faces[n].confidence_score)

MeanOfScores(faces) == FDiv(SumOfScores(faces, Len(faces)), FInt(Len(faces)))

C25_WitnessNoValidFaces ==
  /\ fn = "facial_analyze" /\ args.check = "ok" /\ ret # <<>>
  /\ \E k \in 1..Len(args.frames) :
       ~args.frames[k].raised /\ FLt(args.frames[k].detection_confidence, FDec(7, 10))
  /\ ret[1] = error_response("no_valid_faces", 400)

(***************************************************************************)
(* Temp uploads and batches.                                               *)
(***************************************************************************)
FileBatchHandlers == {"audio_batch_analyze", "facial_batch_analyze"}

\* C26: when a handler that saves uploaded files returns, every file it saved
\* has been removed, on every exit path, an exception after the save
\* included.
C26_EveryUploadReleased ==
  (fn \in FileBatchHandlers /\ pc = "done") => DOMAIN files = {}

\* the items of the request the loop has gone through when it ends
Considered == SubSeq(args.items, 1, batch_length(fn))

RECURSIVE Reported_items(_, _)
Reported_items(items, n) ==
  IF n = 0 THEN <<>>
  ELSE IF fn \in FileBatchHandlers /\ items[n] = "invalid" THEN Reported_items(items, n - 1)
  ELSE Append(Reported_items(items, n - 1), n)

C27_VerdictMatchesShownNumbers ==
  (fn \in {"audio_analyze", "text_analyze"} /\ ret # <<>> /\ ret[1].success) =>
    /\ ret[1].passed <=> FGe(ret[1].overall_quality, ret[1].quality_threshold)
    /\ "quality_level" \in DOMAIN ret[1]
    /\ ret[1].quality_level = get_quality_level(ret[1].overall_quality)

(***************************************************************************)
(* The text aggregate and the scores shown with it.                        *)
(***************************************************************************)
TextSuccess == fn = "text_analyze" /\ ret # <<>> /\ ret[1].success

\* the weighted mean of the scores a mapping holds, clipped and shown to 4
\* decimals
ShownMean(scores) == PyRound(Clip(Normalize(WeightedLoop(scores, text_quality_weights))))

\* C28 as stated: the overall_quality of a text success response is the
\* weighted mean (0.25, 0.25, 0.20, 0.15, 0.15) of the five values shown in
\* combined_scores, a score shown with the default 0.5 included.
C28_OverallIsMeanOfShownScores ==
  TextSuccess => ret[1].overall_quality = ShownMean(ret[1].combined_scores)

\* the scores shown in combined_scores that the combined analysis holds
ShownAndPresent ==
  [n \in combined_scores_names \cap DOMAIN locals["combined_analysis"] |->
     ret[1].combined_scores[n]]

\* C28: the overall_quality of a text success response is the weighted mean,
\* over the weights of the names present, of those values shown in
\* combined_scores whose name the combined analysis holds, clipped to [0, 1]
\* and shown to 4 decimals; a score that is absent from the analysis is shown
\* as 0.5 but is left out of the aggregate.
C28_OverallIsMeanOfPresentScores ==
  TextSuccess =>
    /\ ret[1].overall_quality = ShownMean(ShownAndPresent)
    /\ \A n \in combined_scores_names \ DOMAIN locals["combined_analysis"] :
         ret[1].combined_scores[n] = Neutral

\* without Gemini the relevance score is shown as 0.5 and the aggregate of
\* four scores of 0.8 is shown as 0.8
C28_Witness ==
  /\ TextSuccess
  /\ "relevance_score" \notin DOMAIN locals["combined_analysis"]
  /\ ret[1].combined_scores["relevance_score"] = Neutral
  /\ ret[1].combined_scores["grammar_score"] = FDec(8, 10)
  /\ ret[1].overall_quality = FDec(8, 10)

(***************************************************************************)
(* Monotonicity of the scoring pipeline.                                   *)
(***************************************************************************)
\* the position of a level on the ladder
LevelIndex(level) ==
  CASE level = "Very Poor" -> 0 [] level = "Poor" -> 1 [] level = "Fair" -> 2
    [] level = "Good" -> 3 [] level = "Excellent" -> 4

\* hi is no worse than lo: in value, in the band of the classifier and in
\* the gate at the threshold
NotWorse(lo, hi, threshold) ==
  /\ FGe(hi, lo)
  /\ LevelIndex(_get_quality_level(hi)) >= LevelIndex(_get_quality_level(lo))
  /\ LevelIndex(get_quality_level(hi)) >= LevelIndex(get_quality_level(lo))
  /\ Passed(lo, threshold) => Passed(hi, threshold)

\* C30: for a fixed weight table and a fixed set of present names, raising
\* the value of one sub-score never lowers the aggregate, never moves the
\* quality level to a lower band and never turns passed from true to false;
\* for the audio processor's aggregate, the text service's aggregate and the
\* audio service's second-order combination.
C30_PipelineMonotone ==
  ret # <<>> =>
    /\ fn = "_calculate_quality_score" => NotWorse(ret[1], ret[2], audio_QUALITY_THRESHOLD)
    /\ fn = "text_calculate_overall_quality" => NotWorse(ret[1], ret[2], text_QUALITY_THRESHOLD)
    /\ fn = "audio_calculate_overall_quality" => NotWorse(ret[1], ret[2], audio_QUALITY_THRESHOLD)

\* a raise of one sub-score has moved the aggregate up, across a band and
\* across the threshold
C30_Witness ==
  /\ ret # <<>>
  /\ fn = "text_calculate_overall_quality"
  /\ FGt(ret[2], ret[1])
  /\ ~Passed(ret[1], text_QUALITY_THRESHOLD) /\ Passed(ret[2], text_QUALITY_THRESHOLD)
  /\ LevelIndex(get_quality_level(ret[2])) > LevelIndex(get_quality_level(ret[1]))

====
